---- MODULE Spec2Model ----
(***************************************************************************)
(* Lambda-calculus visualizer: the term model, the substitution and        *)
(* reduction engine (LambdaEvaluator), the Visualizer's handlers, the de   *)
(* Bruijn conversions, the two Tromp-diagram layouts and the notation      *)
(* (toString and LambdaParser).                                            *)
(***************************************************************************)
EXTENDS Integers, Sequences, FiniteSets, TLC

VARIABLES
    \* one call of LambdaEvaluator.substitute
    subExpr, subParam, subReplacement, subResult,
    \* one call of LambdaEvaluator.betaReduce / betaReduceApplicative
    stepExpr, stepFn, stepResult,
    \* calls of LambdaEvaluator.reduceMany / reduceToNormalForm
    expr, maxSteps, strategy, steps, current, count, pc, traces, normalForm,
    \* the Visualizer component
    parsedExpression, currentExpression, stepsShown, canReduce, error,
    handler, nfExpr, nfCount,
    \* one conversion to and from de Bruijn terms
    dbExpr, dbTerm, dbBack, dbDims,
    \* the exported generators gridTrompGenerator and trompDiagramGenerator, and
    \* the layout calls their caller remembers
    gridGen, trompGen, layoutFirst, layoutLast, layoutCalls, layoutOthers,
    \* a term, the string toString gives for it and the term parse reads back
    textExpr, textString, textParsed, textPc,
    \* the exported lambdaParser of the parser module, and what its parse gave
    lambdaParser, parserResult,
    \* one call of evaluateMathAsLambda: the expression, its Church encoding,
    \* the steps of evaluate so far and the number read back
    mathNode, mathLambda, mathSteps, mathResult, mathPc,
    \* one call of the named Tromp diagram generator
    namedExpr, namedOptions, namedDiagram,
    \* the ReductionSequence component: the prop it is given, its state as of
    \* the last render, its autoplay timer and the state updates not yet rendered
    rsInitialExpr, rsMounted, rsSequence, rsCurrentStep, rsIsPlaying, rsPlaySpeed,
    rsTimer, rsPending

subVars == <<subExpr, subParam, subReplacement, subResult>>
stepVars == <<stepExpr, stepFn, stepResult>>
evalVars == <<expr, maxSteps, strategy, steps, current, count, pc, traces, normalForm>>
visVars == <<parsedExpression, currentExpression, stepsShown, canReduce, error,
             handler, nfExpr, nfCount>>
dbVars == <<dbExpr, dbTerm, dbBack, dbDims>>
layoutVars == <<gridGen, trompGen, layoutFirst, layoutLast, layoutCalls, layoutOthers>>
textVars == <<textExpr, textString, textParsed, textPc, lambdaParser, parserResult>>
mathVars == <<mathNode, mathLambda, mathSteps, mathResult, mathPc>>
namesVars == <<namedExpr, namedOptions, namedDiagram>>
seqVars == <<rsInitialExpr, rsMounted, rsSequence, rsCurrentStep, rsIsPlaying, rsPlaySpeed,
             rsTimer, rsPending>>
appVars == <<mathVars, namesVars, seqVars>>
diagramVars == <<dbVars, layoutVars, textVars, appVars>>
vars == <<subVars, stepVars, evalVars, visVars, diagramVars>>

-----------------------------------------------------------------------------
(* Bounds of the model *)

\* largest term (number of nodes) substituted into
MaxSize == 5
\* largest replacement term
MaxReplSize == 2
\* largest term given to a single reduction step
MaxStepSize == 7
\* largest side of an application given to a single reduction step
MaxSideSize == 4
\* most applications in a term given to reduceMany / reduceToNormalForm
MaxApps == 2
\* largest step budget given to reduceMany / reduceToNormalForm
MaxBudget == 3
\* largest term given to the named Tromp diagram generator
MaxNamedSize == 5
\* largest operand of an arithmetic expression
MaxNumber == 4
\* largest step counter the Visualizer shows before Step is no longer taken
MaxShown == 2
\* most iterations followed in handleNormalForm's counting loop
MaxCount == 1540

\* largest named term converted to de Bruijn form
MaxDbSize == 5
\* deepest nest of abstractions converted to de Bruijn form
MaxNest == 10
\* largest de Bruijn term given directly, and the largest index in one
MaxRawSize == 4
MaxRawIndex == 2

\* largest term laid out once, and the deepest nest of abstractions laid out
MaxLayoutSize == 5
MaxLayoutNest == 6
\* largest term laid out repeatedly, and most layout calls followed
MaxRepeatSize == 2
MaxCalls == 3

\* largest term written out and read back
MaxTextSize == 6

\* reduceToNormalForm(expr, maxSteps = 1000)
DefaultMaxSteps == 1000

-----------------------------------------------------------------------------
(* Terms: types/lambda.ts *)

\* the value null (betaReduce's "no reduction possible")
Null == [type |-> "null"]

createVariable(name) == [type |-> "variable", name |-> name]
createAbstraction(param, body) == [type |-> "abstraction", param |-> param, body |-> body]
createApplication(left, right) == [type |-> "application", left |-> left, right |-> right]

\* identifiers the bounded inputs are built from; x1 is the name the
\* freshness policy derives from x
Names == {"x", "y", "x1"}
StepNames == {"x", "y"}

\* the terms over names with exactly n nodes
RECURSIVE TermsOfSize(_, _)
TermsOfSize(names, n) ==
    IF n = 1 THEN {createVariable(v) : v \in names}
    ELSE {createAbstraction(p, b) : p \in names, b \in TermsOfSize(names, n - 1)}
         \cup UNION {{createApplication(l, r) :
                         l \in TermsOfSize(names, k),
                         r \in TermsOfSize(names, n - 1 - k)} :
                     k \in 1..(n - 2)}

TermsUpTo(names, n) == UNION {TermsOfSize(names, k) : k \in 1..n}

-----------------------------------------------------------------------------
(* LambdaEvaluator: lib/lambda/evaluator.ts *)

\* decimal rendering of a counter inside a template literal `${counter}`
DigitChars == <<"0", "1", "2", "3", "4", "5", "6", "7", "8", "9">>

RECURSIVE NumberToString(_)
NumberToString(n) ==
    IF n < 10 THEN DigitChars[n + 1]
    ELSE NumberToString(n \div 10) \o DigitChars[(n % 10) + 1]

RECURSIVE containsFreeVariable(_, _)
containsFreeVariable(e, name) ==
    CASE e.type = "variable" -> e.name = name
      [] e.type = "application" ->
            containsFreeVariable(e.left, name) \/ containsFreeVariable(e.right, name)
      [] e.type = "abstraction" ->
            IF e.param = name THEN FALSE ELSE containsFreeVariable(e.body, name)

RECURSIVE FreshFrom(_, _, _)
FreshFrom(base, exprs, counter) ==
    LET newName == base \o NumberToString(counter)
    IN  IF \E i \in 1..Len(exprs) : containsFreeVariable(exprs[i], newName)
        THEN FreshFrom(base, exprs, counter + 1)
        ELSE newName

\* a freshness check against the replacement alone
generateFreshVariableReplacementOnly(base, exprs) == FreshFrom(base, <<exprs[2]>>, 1)

generateFreshVariable(base, exprs) == FreshFrom(base, exprs, 1)

\* a substitution that leaves the right side of an application alone
RECURSIVE substituteLeftOnly(_, _, _)
substituteLeftOnly(e, param, replacement) ==
    CASE e.type = "variable" ->
            IF e.name = param THEN replacement ELSE e
      [] e.type = "application" ->
            createApplication(substituteLeftOnly(e.left, param, replacement), e.right)
      [] e.type = "abstraction" ->
            IF e.param = param THEN e
            ELSE IF containsFreeVariable(replacement, e.param)
            THEN LET newParam == generateFreshVariable(e.param, <<e, replacement>>)
                     newBody == substituteLeftOnly(e.body, e.param, createVariable(newParam))
                 IN  createAbstraction(newParam,
                                       substituteLeftOnly(newBody, param, replacement))
            ELSE createAbstraction(e.param, substituteLeftOnly(e.body, param, replacement))

RECURSIVE substitute(_, _, _)
substitute(e, param, replacement) ==
    CASE e.type = "variable" ->
            IF e.name = param THEN replacement ELSE e
      [] e.type = "application" ->
            createApplication(substitute(e.left, param, replacement),
                              substitute(e.right, param, replacement))
      [] e.type = "abstraction" ->
            IF e.param = param THEN e
            ELSE IF containsFreeVariable(replacement, e.param)
            THEN LET newParam == generateFreshVariable(e.param, <<e, replacement>>)
                     newBody == substitute(e.body, e.param, createVariable(newParam))
                 IN  createAbstraction(newParam, substitute(newBody, param, replacement))
            ELSE createAbstraction(e.param, substitute(e.body, param, replacement))

\* a step that tries the right side of an application before the left
RECURSIVE betaReduceRightFirst(_)
betaReduceRightFirst(e) ==
    CASE e.type = "application" ->
            IF e.left.type = "abstraction"
            THEN substitute(e.left.body, e.left.param, e.right)
            ELSE LET reducedRight == betaReduceRightFirst(e.right)
                 IN  IF reducedRight # Null
                     THEN createApplication(e.left, reducedRight)
                     ELSE LET reducedLeft == betaReduceRightFirst(e.left)
                          IN  IF reducedLeft # Null
                              THEN createApplication(reducedLeft, e.right)
                              ELSE Null
      [] e.type = "abstraction" ->
            LET reducedBody == betaReduceRightFirst(e.body)
            IN  IF reducedBody # Null
                THEN createAbstraction(e.param, reducedBody)
                ELSE Null
      [] OTHER -> Null

\* a step that never looks under an abstraction
RECURSIVE betaReduceWeak(_)
betaReduceWeak(e) ==
    CASE e.type = "application" ->
            IF e.left.type = "abstraction"
            THEN substitute(e.left.body, e.left.param, e.right)
            ELSE LET reducedLeft == betaReduceWeak(e.left)
                 IN  IF reducedLeft # Null
                     THEN createApplication(reducedLeft, e.right)
                     ELSE LET reducedRight == betaReduceWeak(e.right)
                          IN  IF reducedRight # Null
                              THEN createApplication(e.left, reducedRight)
                              ELSE Null
      [] OTHER -> Null

RECURSIVE betaReduce(_)
betaReduce(e) ==
    CASE e.type = "application" ->
            IF e.left.type = "abstraction"
            THEN substitute(e.left.body, e.left.param, e.right)
            ELSE LET reducedLeft == betaReduce(e.left)
                 IN  IF reducedLeft # Null
                     THEN createApplication(reducedLeft, e.right)
                     ELSE LET reducedRight == betaReduce(e.right)
                          IN  IF reducedRight # Null
                              THEN createApplication(e.left, reducedRight)
                              ELSE Null
      [] e.type = "abstraction" ->
            LET reducedBody == betaReduce(e.body)
            IN  IF reducedBody # Null
                THEN createAbstraction(e.param, reducedBody)
                ELSE Null
      [] OTHER -> Null

RECURSIVE betaReduceApplicative(_)
RECURSIVE isValue(_)

\* an applicative step that tries the function position before the argument
RECURSIVE betaReduceApplicativeLeftFirst(_)
betaReduceApplicativeLeftFirst(e) ==
    CASE e.type = "application" ->
            LET reducedLeft == betaReduceApplicativeLeftFirst(e.left)
            IN  IF reducedLeft # Null
                THEN createApplication(reducedLeft, e.right)
                ELSE LET reducedRight == betaReduceApplicativeLeftFirst(e.right)
                     IN  IF reducedRight # Null
                         THEN createApplication(e.left, reducedRight)
                         ELSE IF e.left.type = "abstraction" /\ isValue(e.right)
                              THEN substitute(e.left.body, e.left.param, e.right)
                              ELSE Null
      [] e.type = "abstraction" ->
            LET reducedBody == betaReduceApplicativeLeftFirst(e.body)
            IN  IF reducedBody # Null
                THEN createAbstraction(e.param, reducedBody)
                ELSE Null
      [] OTHER -> Null

betaReduceApplicative(e) ==
    CASE e.type = "application" ->
            LET reducedRight == betaReduceApplicative(e.right)
            IN  IF reducedRight # Null
                THEN createApplication(e.left, reducedRight)
                ELSE LET reducedLeft == betaReduceApplicative(e.left)
                     IN  IF reducedLeft # Null
                         THEN createApplication(reducedLeft, e.right)
                         ELSE IF e.left.type = "abstraction" /\ isValue(e.right)
                              THEN substitute(e.left.body, e.left.param, e.right)
                              ELSE Null
      [] e.type = "abstraction" ->
            LET reducedBody == betaReduceApplicative(e.body)
            IN  IF reducedBody # Null
                THEN createAbstraction(e.param, reducedBody)
                ELSE Null
      [] OTHER -> Null

isValue(e) ==
    CASE e.type = "abstraction" -> TRUE
      [] e.type = "variable" -> TRUE
      [] e.type = "application" -> betaReduceApplicative(e) = Null
      [] OTHER -> FALSE

-----------------------------------------------------------------------------
(* De Bruijn terms: lib/lambda/deBruijn.ts *)

\* an exception leaving the call
Thrown == [type |-> "thrown"]

DbVar(index) == [type |-> "var", index |-> index]
DbLam(body) == [type |-> "lam", body |-> body]
DbApp(left, right) == [type |-> "app", left |-> left, right |-> right]

Max(a, b) == IF a >= b THEN a ELSE b

\* Array.prototype.includes
includes(context, name) == \E i \in 1..Len(context) : context[i] = name

\* Array.prototype.indexOf, searching from the 1-based position i: the 0-based
\* position of the first element equal to name, -1 when there is none
RECURSIVE indexOf(_, _, _)
indexOf(context, name, i) ==
    IF i > Len(context) THEN -1
    ELSE IF context[i] = name THEN i - 1
    ELSE indexOf(context, name, i + 1)

\* the position of the last element equal to name
RECURSIVE lastIndexOf(_, _, _)
lastIndexOf(context, name, i) ==
    IF i < 1 THEN -1
    ELSE IF context[i] = name THEN i - 1
    ELSE lastIndexOf(context, name, i - 1)

\* a conversion that resolves a name to its outermost binder
RECURSIVE toDeBruijnOutermost(_, _)
toDeBruijnOutermost(e, context) ==
    CASE e.type = "variable" -> DbVar(lastIndexOf(context, e.name, Len(context)))
      [] e.type = "abstraction" ->
            DbLam(toDeBruijnOutermost(e.body, <<e.param>> \o context))
      [] e.type = "application" ->
            DbApp(toDeBruijnOutermost(e.left, context),
                  toDeBruijnOutermost(e.right, context))

RECURSIVE toDeBruijnWithContext(_, _)
toDeBruijnWithContext(e, context) ==
    CASE e.type = "variable" ->
            LET index == indexOf(context, e.name, 1)
            IN  IF index = -1 THEN DbVar(-1) ELSE DbVar(index)
      [] e.type = "abstraction" ->
            LET newContext == <<e.param>> \o context
            IN  DbLam(toDeBruijnWithContext(e.body, newContext))
      [] e.type = "application" ->
            DbApp(toDeBruijnWithContext(e.left, context),
                  toDeBruijnWithContext(e.right, context))

toDeBruijn(e) == toDeBruijnWithContext(e, <<>>)

FreshVars == <<"x", "y", "z", "a", "b", "c", "m", "n">>

RECURSIVE FirstUnusedNumbered(_, _)
FirstUnusedNumbered(context, i) ==
    IF includes(context, "x" \o NumberToString(i))
    THEN FirstUnusedNumbered(context, i + 1)
    ELSE "x" \o NumberToString(i)

\* a name chosen by the nesting depth alone
generateFreshNameByDepth(context) == FreshVars[(Len(context) % Len(FreshVars)) + 1]

generateFreshName(context) ==
    IF \E k \in 1..Len(FreshVars) : ~includes(context, FreshVars[k])
    THEN FreshVars[CHOOSE k \in 1..Len(FreshVars) :
                      /\ ~includes(context, FreshVars[k])
                      /\ \A j \in 1..(k - 1) : includes(context, FreshVars[j])]
    ELSE FirstUnusedNumbered(context, 0)

\* a conversion that rejects every index without a binder
RECURSIVE fromDeBruijnWithContextStrict(_, _)
fromDeBruijnWithContextStrict(term, context) ==
    CASE term.type = "var" ->
            IF "index" \notin DOMAIN term THEN Thrown
            ELSE IF term.index = -1 \/ term.index >= Len(context) THEN Thrown
            ELSE createVariable(context[term.index + 1])
      [] term.type = "lam" ->
            IF "body" \notin DOMAIN term THEN Thrown
            ELSE LET paramName == generateFreshName(context)
                     body == fromDeBruijnWithContextStrict(term.body, <<paramName>> \o context)
                 IN  IF body = Thrown THEN Thrown ELSE createAbstraction(paramName, body)
      [] term.type = "app" ->
            IF "left" \notin DOMAIN term \/ "right" \notin DOMAIN term THEN Thrown
            ELSE LET left == fromDeBruijnWithContextStrict(term.left, context)
                     right == fromDeBruijnWithContextStrict(term.right, context)
                 IN  IF left = Thrown \/ right = Thrown THEN Thrown
                     ELSE createApplication(left, right)

\* a conversion that counts indexes from the outermost binder
RECURSIVE fromDeBruijnWithContextOutermost(_, _)
fromDeBruijnWithContextOutermost(term, context) ==
    CASE term.type = "var" ->
            IF "index" \notin DOMAIN term THEN Thrown
            ELSE IF term.index = -1 \/ term.index >= Len(context)
            THEN createVariable("free_" \o NumberToString(
                     IF term.index = -1 THEN Len(context) ELSE term.index))
            ELSE createVariable(context[Len(context) - term.index])
      [] term.type = "lam" ->
            IF "body" \notin DOMAIN term THEN Thrown
            ELSE LET paramName == generateFreshName(context)
                     body == fromDeBruijnWithContextOutermost(term.body, <<paramName>> \o context)
                 IN  IF body = Thrown THEN Thrown ELSE createAbstraction(paramName, body)
      [] term.type = "app" ->
            IF "left" \notin DOMAIN term \/ "right" \notin DOMAIN term THEN Thrown
            ELSE LET left == fromDeBruijnWithContextOutermost(term.left, context)
                     right == fromDeBruijnWithContextOutermost(term.right, context)
                 IN  IF left = Thrown \/ right = Thrown THEN Thrown
                     ELSE createApplication(left, right)

RECURSIVE fromDeBruijnWithContext(_, _)
fromDeBruijnWithContext(term, context) ==
    CASE term.type = "var" ->
            IF "index" \notin DOMAIN term THEN Thrown
            ELSE IF term.index = -1 \/ term.index >= Len(context)
            THEN createVariable("free_" \o NumberToString(
                     IF term.index = -1 THEN Len(context) ELSE term.index))
            ELSE createVariable(context[term.index + 1])
      [] term.type = "lam" ->
            IF "body" \notin DOMAIN term THEN Thrown
            ELSE LET paramName == generateFreshName(context)
                     newContext == <<paramName>> \o context
                     body == fromDeBruijnWithContext(term.body, newContext)
                 IN  IF body = Thrown THEN Thrown ELSE createAbstraction(paramName, body)
      [] term.type = "app" ->
            IF "left" \notin DOMAIN term \/ "right" \notin DOMAIN term THEN Thrown
            ELSE LET left == fromDeBruijnWithContext(term.left, context)
                     right == fromDeBruijnWithContext(term.right, context)
                 IN  IF left = Thrown \/ right = Thrown THEN Thrown
                     ELSE createApplication(left, right)

fromDeBruijn(term) == fromDeBruijnWithContext(term, <<>>)

\* dimensions whose width is that of the wider side
RECURSIVE calculateDimensionsWidest(_)
calculateDimensionsWidest(term) ==
    CASE term.type = "var" -> [width |-> 1, height |-> 0]
      [] term.type = "lam" ->
            IF "body" \notin DOMAIN term THEN Thrown
            ELSE LET bodyDims == calculateDimensionsWidest(term.body)
                 IN  IF bodyDims = Thrown THEN Thrown
                     ELSE [width |-> bodyDims.width, height |-> bodyDims.height + 1]
      [] term.type = "app" ->
            IF "left" \notin DOMAIN term \/ "right" \notin DOMAIN term THEN Thrown
            ELSE LET leftDims == calculateDimensionsWidest(term.left)
                     rightDims == calculateDimensionsWidest(term.right)
                 IN  IF leftDims = Thrown \/ rightDims = Thrown THEN Thrown
                     ELSE [width |-> Max(leftDims.width, rightDims.width),
                           height |-> Max(leftDims.height, rightDims.height) + 1]

RECURSIVE calculateDimensions(_)
calculateDimensions(term) ==
    CASE term.type = "var" -> [width |-> 1, height |-> 0]
      [] term.type = "lam" ->
            IF "body" \notin DOMAIN term THEN Thrown
            ELSE LET bodyDims == calculateDimensions(term.body)
                 IN  IF bodyDims = Thrown THEN Thrown
                     ELSE [width |-> bodyDims.width, height |-> bodyDims.height + 1]
      [] term.type = "app" ->
            IF "left" \notin DOMAIN term \/ "right" \notin DOMAIN term THEN Thrown
            ELSE LET leftDims == calculateDimensions(term.left)
                     rightDims == calculateDimensions(term.right)
                 IN  IF leftDims = Thrown \/ rightDims = Thrown THEN Thrown
                     ELSE [width |-> leftDims.width + rightDims.width,
                           height |-> Max(leftDims.height, rightDims.height) + 1]

-----------------------------------------------------------------------------
(* GridTrompGenerator: lib/lambda/trompDiagramGrid.ts.  Coordinates are held *)
(* doubled, so that gridSize / 2 is a whole number.                          *)

\* private gridSize = 35
gridSize == 35

Twice(n) == 2 * n

\* undefined * gridSize: held as a value that no coordinate takes
NaN == -1000000

\* a number inside a template literal
IntToString(n) == IF n < 0 THEN "-" \o NumberToString(0 - n) ELSE NumberToString(n)

\* an object literal with a property that is left undefined unless present
WithOptional(rec, field, present, value) ==
    IF present
    THEN [f \in DOMAIN rec \cup {field} |-> IF f = field THEN value ELSE rec[f]]
    ELSE rec

DefaultOptions == [style |-> "classic", showVariableNames |-> TRUE, showNodeLabels |-> TRUE]

RECURSIVE calculateDimensionsGrid(_)
calculateDimensionsGrid(term) ==
    CASE term.type = "var" -> [width |-> 0, height |-> 1]
      [] term.type = "lam" ->
            IF "body" \notin DOMAIN term THEN Thrown
            ELSE LET bodyDims == calculateDimensionsGrid(term.body)
                 IN  IF bodyDims = Thrown THEN Thrown
                     ELSE [width |-> bodyDims.width + 1, height |-> bodyDims.height]
      [] term.type = "app" ->
            IF "left" \notin DOMAIN term \/ "right" \notin DOMAIN term THEN Thrown
            ELSE LET leftDims == calculateDimensionsGrid(term.left)
                     rightDims == calculateDimensionsGrid(term.right)
                 IN  IF leftDims = Thrown \/ rightDims = Thrown THEN Thrown
                     ELSE [width |-> Max(leftDims.width, rightDims.width) + 1,
                           height |-> leftDims.height + rightDims.height]

\* a binder stack that grows at its far end
newBindersAppended(y, binders) == binders \o <<y>>

\* const newBinders = [y, ...binders]
newBinders(y, binders) == <<y>> \o binders

\* g holds nodes, links and the generator's two counters
RECURSIVE generateVisual(_, _, _, _, _, _)
generateVisual(term, x, y, binders, g, options) ==
    CASE term.type = "var" ->
            IF "index" \notin DOMAIN term THEN Thrown
            ELSE
            LET nodeId == "node_" \o IntToString(g.nodeCounter)
                varX == Twice(y * gridSize)
                varY == Twice(x * gridSize)
                inStack == term.index < Len(binders)
                \* binders[term.index] is undefined for a negative index
                defined == inStack /\ term.index >= 0
                varName == IF inStack THEN "x" \o IntToString(term.index) ELSE "free"
                node == WithOptional(
                            WithOptional(
                                [id |-> nodeId, type |-> "variable", x |-> varX, y |-> varY,
                                 width |-> Twice(gridSize), height |-> Twice(gridSize)],
                                "binderIndex", defined,
                                IF defined THEN binders[term.index + 1] ELSE 0),
                            "varName", options.showVariableNames, varName)
                link == [id |-> "link_" \o IntToString(g.linkCounter),
                         type |-> "variable",
                         points |-> <<[x |-> varX, y |-> varY + gridSize],
                                      [x |-> IF defined
                                             THEN Twice(binders[term.index + 1] * gridSize)
                                             ELSE NaN,
                                       y |-> varY + gridSize]>>]
            IN  [g |-> [nodes |-> Append(g.nodes, node),
                        links |-> IF inStack THEN Append(g.links, link) ELSE g.links,
                        nodeCounter |-> g.nodeCounter + 1,
                        linkCounter |-> IF inStack THEN g.linkCounter + 1
                                        ELSE g.linkCounter],
                 width |-> 1, lastNodeId |-> nodeId]
      [] term.type = "lam" ->
            IF "body" \notin DOMAIN term THEN Thrown
            ELSE
            LET nodeId == "node_" \o IntToString(g.nodeCounter)
                lamX == Twice(y * gridSize)
                lamY == Twice(x * gridSize)
                node == [id |-> nodeId, type |-> "abstraction", x |-> lamX, y |-> lamY,
                         width |-> Twice(gridSize), height |-> Twice(gridSize)]
                body == generateVisual(term.body, x, y + 1, newBinders(y, binders),
                            [g EXCEPT !.nodes = Append(g.nodes, node),
                                      !.nodeCounter = g.nodeCounter + 1],
                            options)
            IN  IF body = Thrown THEN Thrown
                ELSE
                LET link == [id |-> "link_" \o IntToString(body.g.linkCounter),
                             type |-> "abstraction",
                             points |-> <<[x |-> lamX, y |-> lamY],
                                          [x |-> lamX,
                                           y |-> lamY + Twice(body.width * gridSize)]>>]
                IN  [g |-> [body.g EXCEPT !.links = Append(body.g.links, link),
                                          !.linkCounter = body.g.linkCounter + 1],
                     width |-> body.width, lastNodeId |-> nodeId]
      [] term.type = "app" ->
            IF "left" \notin DOMAIN term \/ "right" \notin DOMAIN term THEN Thrown
            ELSE
            LET appX == Twice(y * gridSize)
                appY == Twice(x * gridSize)
                leftDims == calculateDimensionsGrid(term.left)
                rightDims == calculateDimensionsGrid(term.right)
            IN  IF leftDims = Thrown \/ rightDims = Thrown THEN Thrown
                ELSE
                LET right == generateVisual(term.right, x + leftDims.width, y + 1,
                                            binders, g, options)
                IN  IF right = Thrown THEN Thrown
                    ELSE
                    LET left == generateVisual(term.left, x, y + 1, binders, right.g, options)
                    IN  IF left = Thrown THEN Thrown
                        ELSE
                        LET link == [id |-> "link_" \o IntToString(left.g.linkCounter),
                                     type |-> "application",
                                     points |-> <<[x |-> appX + gridSize,
                                                   y |-> appY + gridSize],
                                                  [x |-> appX + gridSize,
                                                   y |-> appY + Twice(left.width * gridSize)
                                                         + gridSize]>>]
                        IN  [g |-> [left.g EXCEPT !.links = Append(left.g.links, link),
                                                  !.linkCounter = left.g.linkCounter + 1],
                             width |-> left.width + right.width,
                             lastNodeId |-> left.lastNodeId]

\* counters that carry on from the previous call
resetCountersKept(self) == self

\* this.nodeCounter = 0; this.linkCounter = 0
resetCounters(self) == [nodeCounter |-> 0, linkCounter |-> 0]

\* self holds the generator's fields; the result is the returned grid, or
\* Thrown, with the fields as the call leaves them
generateGrid(self, e, options) ==
    LET start == resetCounters(self)
        deBruijnTerm == toDeBruijn(e)
        dims == calculateDimensionsGrid(deBruijnTerm)
        visual == IF dims = Thrown THEN Thrown
                  ELSE generateVisual(deBruijnTerm, 0, 0, <<>>,
                           [nodes |-> <<>>, links |-> <<>>,
                            nodeCounter |-> start.nodeCounter,
                            linkCounter |-> start.linkCounter],
                           options)
    IN  IF visual = Thrown THEN [self |-> start, result |-> Thrown]
        ELSE [self |-> [nodeCounter |-> visual.g.nodeCounter,
                        linkCounter |-> visual.g.linkCounter],
              result |-> [nodes |-> visual.g.nodes,
                          links |-> visual.g.links,
                          height |-> Twice(dims.width * gridSize + gridSize * 4),
                          width |-> Twice(dims.height * gridSize + gridSize * 4)]]

-----------------------------------------------------------------------------
(* TrompDiagramGenerator: lib/lambda/trompDiagram.ts.  Coordinates are held  *)
(* doubled, as above.                                                        *)

\* 5.5 * this.gridSize and 3.5 * this.gridSize
horizontalSpacing == Twice(55 * gridSize) \div 10
verticalSpacing == Twice(35 * gridSize) \div 10

\* this.gridSize * 0.8
applicationLinkDrop == Twice(8 * gridSize) \div 10

\* a Map as the sequence of its entries
MapHas(m, key) == \E i \in 1..Len(m) : m[i].key = key

MapGet(m, key) == m[CHOOSE i \in 1..Len(m) : m[i].key = key].value

MapSet(m, key, value) ==
    IF MapHas(m, key)
    THEN [i \in 1..Len(m) |-> IF m[i].key = key THEN [key |-> key, value |-> value] ELSE m[i]]
    ELSE Append(m, [key |-> key, value |-> value])

MapDelete(m, key) == SelectSeq(m, LAMBDA entry : entry.key # key)

MaxOf(S) == CHOOSE n \in S : \A k \in S : k <= n

RECURSIVE analyzeExpression(_, _, _, _)
\* maxDepthField is this.maxDepth
analyzeExpression(maxDepthField, e, depth, varIndex) ==
    LET seen == Max(maxDepthField, depth)
    IN  CASE e.type = "variable" ->
                [maxDepthField |-> seen, varCount |-> 1, maxDepth |-> depth]
          [] e.type = "abstraction" ->
                analyzeExpression(seen, e.body, depth + 1, varIndex)
          [] e.type = "application" ->
                LET leftAnalysis == analyzeExpression(seen, e.left, depth + 1, varIndex)
                    rightAnalysis == analyzeExpression(leftAnalysis.maxDepthField, e.right,
                                         depth + 1, varIndex + leftAnalysis.varCount)
                IN  [maxDepthField |-> rightAnalysis.maxDepthField,
                     varCount |-> leftAnalysis.varCount + rightAnalysis.varCount,
                     maxDepth |-> Max(leftAnalysis.maxDepth, rightAnalysis.maxDepth)]

\* an application link that always starts at the left edge
applicationLinkStartLeftmost(alternativeStyle, xOffset, lastVarX) == xOffset

\* x1 of the application link
applicationLinkStart(alternativeStyle, xOffset, lastVarX) ==
    IF alternativeStyle THEN lastVarX ELSE xOffset

RECURSIVE generateNodes(_, _, _, _)
generateNodes(self, e, depth, xOffset) ==
    CASE e.type = "variable" ->
            LET nodeId == "node_" \o IntToString(self.nodeCounter)
                x == xOffset
                y == depth * verticalSpacing
                bound == MapHas(self.variableBindings, e.name)
                binderId == IF bound THEN MapGet(self.variableBindings, e.name) ELSE ""
                node == WithOptional(
                            [id |-> nodeId, type |-> "variable", x |-> x, y |-> y,
                             varName |-> e.name, depth |-> depth],
                            "binderId", bound, binderId)
                nodes == Append(self.nodes, node)
                found == \E i \in 1..Len(nodes) : nodes[i].id = binderId
                binderNode == nodes[CHOOSE i \in 1..Len(nodes) : nodes[i].id = binderId]
                linked == bound /\ binderId # "" /\ found
            IN  [self |-> [self EXCEPT
                     !.nodeCounter = self.nodeCounter + 1,
                     !.nodes = nodes,
                     !.links = IF linked
                               THEN Append(self.links,
                                        [id |-> "link_" \o IntToString(self.linkCounter),
                                         type |-> "variable",
                                         x1 |-> x, y1 |-> binderNode.y, x2 |-> x, y2 |-> y])
                               ELSE self.links,
                     !.linkCounter = IF linked THEN self.linkCounter + 1
                                     ELSE self.linkCounter,
                     !.variablePositions =
                         MapSet(self.variablePositions, nodeId, [x |-> x, y |-> y])],
                 width |-> horizontalSpacing, lastVarX |-> x]
      [] e.type = "abstraction" ->
            LET nodeId == "node_" \o IntToString(self.nodeCounter)
                x == xOffset
                y == depth * verticalSpacing
                hadBinding == MapHas(self.variableBindings, e.param)
                oldBinding == IF hadBinding THEN MapGet(self.variableBindings, e.param) ELSE ""
                node == [id |-> nodeId, type |-> "abstraction", x |-> x, y |-> y,
                         param |-> e.param, depth |-> depth]
                bodyResult == generateNodes(
                                  [self EXCEPT
                                      !.nodeCounter = self.nodeCounter + 1,
                                      !.variableBindings =
                                          MapSet(self.variableBindings, e.param, nodeId),
                                      !.nodes = Append(self.nodes, node)],
                                  e.body, depth + 1, xOffset)
                after == bodyResult.self
            IN  [self |-> [after EXCEPT
                     !.links = Append(after.links,
                                   [id |-> "link_" \o IntToString(after.linkCounter),
                                    type |-> "abstraction",
                                    x1 |-> x, y1 |-> y,
                                    x2 |-> x + bodyResult.width, y2 |-> y]),
                     !.linkCounter = after.linkCounter + 1,
                     !.variableBindings =
                         IF hadBinding /\ oldBinding # ""
                         THEN MapSet(after.variableBindings, e.param, oldBinding)
                         ELSE MapDelete(after.variableBindings, e.param)],
                 width |-> bodyResult.width, lastVarX |-> bodyResult.lastVarX]
      [] e.type = "application" ->
            LET leftResult == generateNodes(self, e.left, depth, xOffset)
                rightResult == generateNodes(leftResult.self, e.right, depth,
                                             xOffset + leftResult.width)
                after == rightResult.self
            IN  [self |-> [after EXCEPT
                     !.links = Append(after.links,
                                   [id |-> "link_" \o IntToString(after.linkCounter),
                                    type |-> "application",
                                    x1 |-> applicationLinkStart(after.alternativeStyle,
                                                                xOffset, leftResult.lastVarX),
                                    y1 |-> depth * verticalSpacing + applicationLinkDrop,
                                    x2 |-> xOffset + leftResult.width,
                                    y2 |-> depth * verticalSpacing + applicationLinkDrop]),
                     !.linkCounter = after.linkCounter + 1],
                 width |-> leftResult.width + rightResult.width,
                 lastVarX |-> rightResult.lastVarX]

\* Math.max of the empty list is -Infinity, which the outer Math.max drops
calculateWidth(self) ==
    IF Len(self.nodes) = 0 THEN 0
    ELSE MaxOf({self.nodes[i].x : i \in 1..Len(self.nodes)}
               \cup {self.links[i].x2 :
                        i \in {k \in 1..Len(self.links) : self.links[k].type = "abstraction"}})
         + Twice(gridSize * 3)

calculateHeight(self) == (self.maxDepth + 1) * verticalSpacing + Twice(gridSize * 3)

\* the fields of a newly constructed generator
NewTrompDiagramGenerator ==
    [nodeCounter |-> 0, linkCounter |-> 0, nodes |-> <<>>, links |-> <<>>,
     variableBindings |-> <<>>, variablePositions |-> <<>>, maxDepth |-> 0,
     alternativeStyle |-> FALSE]

generateDiagram(self, e, alternativeStyle) ==
    LET start == [self EXCEPT !.nodeCounter = 0, !.linkCounter = 0,
                              !.nodes = <<>>, !.links = <<>>,
                              !.variableBindings = <<>>, !.variablePositions = <<>>,
                              !.maxDepth = 0, !.alternativeStyle = alternativeStyle]
        analysed == [start EXCEPT
                        !.maxDepth = analyzeExpression(start.maxDepth, e, 0, 0).maxDepthField]
        done == generateNodes(analysed, e, 0, 0).self
    IN  [self |-> done,
         result |-> [nodes |-> done.nodes, links |-> done.links,
                     width |-> calculateWidth(done), height |-> calculateHeight(done),
                     alternativeStyle |-> alternativeStyle]]

-----------------------------------------------------------------------------
(* The notation: LambdaEvaluator.toString and LambdaParser (lib/lambda/      *)
(* parser.ts).  A string is the sequence of its characters; positions count  *)
(* from 1.                                                                   *)

TextNames == {"x", "y1", "_z"}

\* the characters of a name
Characters(name) ==
    CASE name = "x" -> <<"x">>
      [] name = "y1" -> <<"y", "1">>
      [] name = "_z" -> <<"_", "z">>

\* the string made of the given characters
RECURSIVE Join(_)
Join(chars) == IF chars = <<>> THEN "" ELSE Head(chars) \o Join(Tail(chars))

\* a notation that leaves the right side of an application bare
RECURSIVE toStringBareRight(_)
toStringBareRight(e) ==
    CASE e.type = "variable" -> Characters(e.name)
      [] e.type = "abstraction" ->
            <<"λ">> \o Characters(e.param) \o <<".">> \o toStringBareRight(e.body)
      [] e.type = "application" ->
            LET left == IF e.left.type = "abstraction"
                        THEN <<"(">> \o toStringBareRight(e.left) \o <<")">>
                        ELSE toStringBareRight(e.left)
                right == IF e.right.type = "abstraction"
                         THEN <<"(">> \o toStringBareRight(e.right) \o <<")">>
                         ELSE toStringBareRight(e.right)
            IN  left \o <<" ">> \o right

RECURSIVE toString(_)
toString(e) ==
    CASE e.type = "variable" -> Characters(e.name)
      [] e.type = "abstraction" ->
            <<"λ">> \o Characters(e.param) \o <<".">> \o toString(e.body)
      [] e.type = "application" ->
            LET left == IF e.left.type = "abstraction"
                        THEN <<"(">> \o toString(e.left) \o <<")">>
                        ELSE toString(e.left)
                right == IF e.right.type = "application" \/ e.right.type = "abstraction"
                         THEN <<"(">> \o toString(e.right) \o <<")">>
                         ELSE toString(e.right)
            IN  left \o <<" ">> \o right

\* /[a-zA-Z0-9_]/
VarChars ==
    {"a", "b", "c", "d", "e", "f", "g", "h", "i", "j", "k", "l", "m",
     "n", "o", "p", "q", "r", "s", "t", "u", "v", "w", "x", "y", "z",
     "A", "B", "C", "D", "E", "F", "G", "H", "I", "J", "K", "L", "M",
     "N", "O", "P", "Q", "R", "S", "T", "U", "V", "W", "X", "Y", "Z",
     "0", "1", "2", "3", "4", "5", "6", "7", "8", "9", "_"}

\* /\s/, as far as the inputs go
Whitespace == {" ", "\t", "\n", "\r"}

isValidVarChar(char) == char \in VarChars

\* this.input[this.pos] || ''
currentChar(input, pos) == IF pos <= Len(input) THEN input[pos] ELSE ""

RECURSIVE skipWhitespace(_, _)
skipWhitespace(input, pos) ==
    IF pos <= Len(input) /\ input[pos] \in Whitespace
    THEN skipWhitespace(input, pos + 1)
    ELSE pos

\* the position after the name that starts at pos
RECURSIVE endOfName(_, _)
endOfName(input, pos) ==
    IF pos <= Len(input) /\ isValidVarChar(input[pos])
    THEN endOfName(input, pos + 1)
    ELSE pos

parseVariableName(input, pos) ==
    LET end == endOfName(input, pos)
    IN  [name |-> Join(SubSeq(input, pos, end - 1)), pos |-> end]

RECURSIVE trimStart(_)
trimStart(input) ==
    IF input # <<>> /\ Head(input) \in Whitespace THEN trimStart(Tail(input)) ELSE input

RECURSIVE trimEnd(_)
trimEnd(input) ==
    IF input # <<>> /\ input[Len(input)] \in Whitespace
    THEN trimEnd(SubSeq(input, 1, Len(input) - 1))
    ELSE input

trim(input) == trimEnd(trimStart(input))

RECURSIVE parseExpr(_, _)
RECURSIVE parseAbstraction(_, _)
RECURSIVE parseApplication(_, _)
RECURSIVE parseApplicationLoop(_, _, _)
RECURSIVE parseAtom(_, _)

\* each returns the term with the position reached, or Thrown
parseExpr(input, pos) ==
    LET at == skipWhitespace(input, pos)
    IN  IF currentChar(input, at) = "\\" \/ currentChar(input, at) = "λ"
        THEN parseAbstraction(input, at + 1)
        ELSE parseApplication(input, at)

parseAbstraction(input, pos) ==
    LET at == skipWhitespace(input, pos)
    IN  IF ~isValidVarChar(currentChar(input, at)) THEN Thrown
        ELSE LET param == parseVariableName(input, at)
                 dot == skipWhitespace(input, param.pos)
             IN  IF currentChar(input, dot) # "." THEN Thrown
                 ELSE LET body == parseExpr(input, dot + 1)
                      IN  IF body = Thrown THEN Thrown
                          ELSE [expr |-> createAbstraction(param.name, body.expr),
                                pos |-> body.pos]

parseApplication(input, pos) ==
    LET left == parseAtom(input, pos)
    IN  IF left = Thrown THEN Thrown
        ELSE parseApplicationLoop(input, left.expr, skipWhitespace(input, left.pos))

\* the while loop of parseApplication, entered after skipWhitespace
parseApplicationLoop(input, left, pos) ==
    IF pos <= Len(input) /\ currentChar(input, pos) # ")" /\ currentChar(input, pos) # "."
    THEN LET right == parseAtom(input, pos)
         IN  IF right = Thrown THEN Thrown
             ELSE parseApplicationLoop(input, createApplication(left, right.expr),
                                       skipWhitespace(input, right.pos))
    ELSE [expr |-> left, pos |-> pos]

parseAtom(input, pos) ==
    LET at == skipWhitespace(input, pos)
    IN  IF currentChar(input, at) = "("
        THEN LET inner == parseExpr(input, at + 1)
             IN  IF inner = Thrown THEN Thrown
                 ELSE LET close == skipWhitespace(input, inner.pos)
                      IN  IF currentChar(input, close) # ")" THEN Thrown
                          ELSE [expr |-> inner.expr, pos |-> close + 1]
        ELSE IF isValidVarChar(currentChar(input, at))
        THEN LET name == parseVariableName(input, at)
             IN  [expr |-> createVariable(name.name), pos |-> name.pos]
        ELSE Thrown

\* the parsed term, or Thrown
parse(input) ==
    LET trimmed == trim(input)
        parsed == parseExpr(trimmed, 1)
    IN  IF parsed = Thrown THEN Thrown
        ELSE IF skipWhitespace(trimmed, parsed.pos) <= Len(trimmed) THEN Thrown
        ELSE parsed.expr

(* The LambdaParser of the parser module. Its methods return the term with
   the position reached, or the error they throw with the position in its
   message. Positions are counted from 1 here; the message counts from 0. *)

ThrownAt(pos) == [type |-> "thrown", position |-> pos - 1]

isIdentifierChar(char) == char \in VarChars

\* the position after the identifier characters that start at pos
RECURSIVE endOfIdentifier(_, _)
endOfIdentifier(input, pos) ==
    IF pos <= Len(input) /\ isIdentifierChar(currentChar(input, pos))
    THEN endOfIdentifier(input, pos + 1)
    ELSE pos

parseIdentifier(input, pos) ==
    LET start == skipWhitespace(input, pos)
        end == endOfIdentifier(input, start)
    IN  IF start = end THEN ThrownAt(end)
        ELSE [type |-> "identifier", name |-> Join(SubSeq(input, start, end - 1)),
              pos |-> end]

RECURSIVE parserParseExpr(_, _)
RECURSIVE parserParseAbstraction(_, _)
RECURSIVE parserParseApplication(_, _)
RECURSIVE parserParseApplicationLoop(_, _, _)
RECURSIVE parserParseAtom(_, _)

parserParseExpr(input, pos) ==
    LET at == skipWhitespace(input, pos)
    IN  IF currentChar(input, at) = "λ" \/ currentChar(input, at) = "\\"
        THEN parserParseAbstraction(input, at)
        ELSE parserParseApplication(input, at)

\* entered at the lambda symbol
parserParseAbstraction(input, pos) ==
    LET param == parseIdentifier(input, skipWhitespace(input, pos + 1))
    IN  IF param.type = "thrown" THEN param
        ELSE LET dot == skipWhitespace(input, param.pos)
             IN  IF currentChar(input, dot) # "." THEN ThrownAt(dot)
                 ELSE LET body == parserParseExpr(input, dot + 1)
                      IN  IF body.type = "thrown" THEN body
                          ELSE [type |-> "parsed",
                                expr |-> createAbstraction(param.name, body.expr),
                                pos |-> body.pos]

parserParseApplication(input, pos) ==
    LET left == parserParseAtom(input, pos)
    IN  IF left.type = "thrown" THEN left
        ELSE parserParseApplicationLoop(input, left.expr, skipWhitespace(input, left.pos))

\* the while loop of parseApplication, entered after skipWhitespace
parserParseApplicationLoop(input, left, pos) ==
    IF pos <= Len(input) /\ currentChar(input, pos) # ")" /\ currentChar(input, pos) # "."
    THEN LET right == parserParseAtom(input, pos)
         IN  IF right.type = "thrown" THEN right
             ELSE parserParseApplicationLoop(input, createApplication(left, right.expr),
                                             skipWhitespace(input, right.pos))
    ELSE [type |-> "parsed", expr |-> left, pos |-> pos]

parserParseAtom(input, pos) ==
    LET at == skipWhitespace(input, pos)
    IN  IF currentChar(input, at) = "("
        THEN LET inner == parserParseExpr(input, at + 1)
             IN  IF inner.type = "thrown" THEN inner
                 ELSE LET close == skipWhitespace(input, inner.pos)
                      IN  IF currentChar(input, close) # ")" THEN ThrownAt(close)
                          ELSE [type |-> "parsed", expr |-> inner.expr, pos |-> close + 1]
        ELSE IF currentChar(input, at) = "λ" \/ currentChar(input, at) = "\\"
        THEN parserParseAbstraction(input, at)
        ELSE LET name == parseIdentifier(input, at)
             IN  IF name.type = "thrown" THEN name
                 ELSE [type |-> "parsed", expr |-> createVariable(name.name),
                       pos |-> name.pos]

\* private pos = 0; private input = ''
NewLambdaParser == [pos |-> 0, input |-> <<>>]

\* the parser after the call, with the term returned or the error thrown
parserParse(self, input) ==
    LET trimmed == trim(input)
        parsed == parserParseExpr(trimmed, 1)
    IN  IF parsed.type = "thrown"
        THEN [self |-> [pos |-> parsed.position, input |-> trimmed], result |-> parsed]
        ELSE [self |-> [pos |-> parsed.pos - 1, input |-> trimmed],
              result |-> parsed.expr]

-----------------------------------------------------------------------------
(* One call of substitute on bounded inputs *)

SubInit ==
    /\ subExpr \in TermsUpTo(Names, MaxSize)
    /\ subParam \in Names
    /\ subReplacement \in TermsUpTo(Names, MaxReplSize)
    /\ subResult = Null

Substitute ==
    /\ subResult = Null
    /\ subResult' = substitute(subExpr, subParam, subReplacement)
    /\ UNCHANGED <<subExpr, subParam, subReplacement>>

\* the other components at rest
SubIdle ==
    /\ subExpr = Null /\ subParam = "" /\ subReplacement = Null /\ subResult = Null

StepIdle ==
    /\ stepExpr = Null /\ stepFn = "none" /\ stepResult = Null

EvalIdle ==
    /\ expr = Null /\ maxSteps = 0 /\ strategy = "normal" /\ steps = <<>>
    /\ current = Null /\ count = 0 /\ pc = "idle"
    /\ traces = [s \in {"normal", "applicative"} |-> <<>>] /\ normalForm = Null

VisIdle ==
    /\ parsedExpression = Null /\ currentExpression = Null /\ stepsShown = 0
    /\ canReduce = FALSE /\ error = FALSE /\ handler = "idle"
    /\ nfExpr = Null /\ nfCount = 0

DbIdle ==
    /\ dbExpr = Null /\ dbTerm = Null /\ dbBack = Null /\ dbDims = Null

LayoutIdle ==
    /\ gridGen = Null /\ trompGen = Null
    /\ layoutFirst = Null /\ layoutLast = Null /\ layoutCalls = 0 /\ layoutOthers = 0

TextIdle ==
    /\ textExpr = Null /\ textString = <<>> /\ textParsed = Null /\ textPc = "idle"
    /\ lambdaParser = NewLambdaParser /\ parserResult = Null

-----------------------------------------------------------------------------
(* lib/lambdaCalculus.ts and lib/mathToLambda.ts: Church arithmetic.  The    *)
(* LambdaNode of this library has the fields func and arg in an application. *)

variable(name) == [type |-> "variable", name |-> name]
abstraction(param, body) == [type |-> "abstraction", param |-> param, body |-> body]
application(func, arg) == [type |-> "application", func |-> func, arg |-> arg]

\* f^n(x)
RECURSIVE applyNTimes(_, _, _)
applyNTimes(funcName, argName, n) ==
    IF n = 0 THEN variable(argName)
    ELSE application(variable(funcName), applyNTimes(funcName, argName, n - 1))

churchNumber(n) == abstraction("f", abstraction("x", applyNTimes("f", "x", n)))

churchAdd ==
    abstraction("m", abstraction("n", abstraction("f", abstraction("x",
        application(
            application(variable("m"), variable("f")),
            application(application(variable("n"), variable("f")), variable("x")))))))

churchMultiply ==
    abstraction("m", abstraction("n", abstraction("f",
        application(variable("m"), application(variable("n"), variable("f"))))))

churchSubtract ==
    abstraction("m", abstraction("n", abstraction("f", abstraction("x",
        application(
            application(
                variable("n"),
                abstraction("g", abstraction("h",
                    application(variable("h"),
                                application(variable("g"), variable("f")))))),
            application(abstraction("u", variable("x")),
                        abstraction("u", variable("u"))))))))

\* substitute of lambdaCalculus.ts
RECURSIVE substituteNode(_, _, _)
substituteNode(term, varName, replacement) ==
    CASE term.type = "variable" -> IF term.name = varName THEN replacement ELSE term
      [] term.type = "abstraction" ->
            IF term.param = varName THEN term
            ELSE abstraction(term.param, substituteNode(term.body, varName, replacement))
      [] term.type = "application" ->
            application(substituteNode(term.func, varName, replacement),
                        substituteNode(term.arg, varName, replacement))

\* betaReduce of lambdaCalculus.ts
RECURSIVE betaReduceNode(_)
betaReduceNode(term) ==
    CASE term.type = "variable" -> [reduced |-> term, changed |-> FALSE]
      [] term.type = "abstraction" ->
            LET bodyResult == betaReduceNode(term.body)
            IN  IF bodyResult.changed
                THEN [reduced |-> abstraction(term.param, bodyResult.reduced),
                      changed |-> TRUE]
                ELSE [reduced |-> term, changed |-> FALSE]
      [] term.type = "application" ->
            IF term.func.type = "abstraction"
            THEN [reduced |-> substituteNode(term.func.body, term.func.param, term.arg),
                  changed |-> TRUE]
            ELSE LET funcResult == betaReduceNode(term.func)
                 IN  IF funcResult.changed
                     THEN [reduced |-> application(funcResult.reduced, term.arg),
                           changed |-> TRUE]
                     ELSE LET argResult == betaReduceNode(term.arg)
                          IN  IF argResult.changed
                              THEN [reduced |-> application(term.func, argResult.reduced),
                                    changed |-> TRUE]
                              ELSE [reduced |-> term, changed |-> FALSE]

\* the values extractNumber handles: numbers, NaN among them, and the
\* function counter
JsNumber(n) == [type |-> "number", value |-> n]
counter == [type |-> "function", name |-> "counter"]

\* what the function applyChurch(f, arg) returns when it is called, for an
\* abstraction f; the function does not look at its own argument
RECURSIVE applyChurchCalled(_, _)
applyChurchCalled(f, arg) ==
    LET substituted == substituteNode(f.body, f.param, variable("_jsval_"))
    IN  IF substituted.type = "variable" /\ substituted.name = "_jsval_" THEN arg
        ELSE IF substituted.type = "application"
        THEN \* applyChurch throws "Not a function" unless it is given an abstraction
             IF substituted.func.type # "abstraction" THEN Thrown
             ELSE LET funcResult == applyChurchCalled(substituted.func, arg)
                  IN  IF substituted.arg.type # "abstraction" THEN Thrown
                      ELSE funcResult
        ELSE Thrown

extractNumber(church) ==
    IF church.type # "abstraction" THEN Thrown
    ELSE LET result == applyChurchCalled(church, counter)
         IN  IF result = Thrown THEN JsNumber(NaN) ELSE result

RECURSIVE convertMathToLambda(_)
convertMathToLambda(node) ==
    IF node.type = "number" THEN churchNumber(node.value)
    ELSE LET leftLambda == convertMathToLambda(node.left)
             rightLambda == convertMathToLambda(node.right)
         IN  IF leftLambda = Thrown \/ rightLambda = Thrown THEN Thrown
             ELSE CASE node.operator = "+" ->
                        application(application(churchAdd, leftLambda), rightLambda)
                    [] node.operator = "-" ->
                        application(application(churchSubtract, leftLambda), rightLambda)
                    [] node.operator = "*" ->
                        application(application(churchMultiply, leftLambda), rightLambda)
                    [] OTHER -> Thrown

-----------------------------------------------------------------------------
(* The TrompDiagramGenerator that keeps the names of the expression.  Rows   *)
(* (the y of analyzeTerm, context.depth, a lambda's index) are held doubled, *)
(* as half rows occur.  The height of a variable's line, the y of an         *)
(* application and the height of the diagram are left out.                   *)

NamedDefaultOptions ==
    [showVariableNames |-> TRUE, gridSize |-> 30, padding |-> 30, useColors |-> FALSE]

RECURSIVE setupVariableNames(_, _, _)
\* the varMap after the call
setupVariableNames(e, varMap, depth) ==
    CASE e.type = "abstraction" ->
            setupVariableNames(e.body, MapSet(varMap, depth, e.param), depth + 1)
      [] e.type = "application" ->
            setupVariableNames(e.right, setupVariableNames(e.left, varMap, depth), depth)
      [] OTHER -> varMap

\* `id_${context.nextId++}`
nextId(context) == "id_" \o IntToString(context.nextId)

\* variables.find(v => v.id === id)
findVariable(variables, id) == CHOOSE i \in 1..Len(variables) : variables[i].id = id

\* the context, variables and applications after the call
createApplicationConnections(leftResult, rightResult, level, st) ==
    IF Len(leftResult.variableIds) = 0 \/ Len(rightResult.variableIds) = 0 THEN st
    ELSE LET leftVar == findVariable(st.variables, leftResult.variableIds[1])
             rightVar == findVariable(st.variables, rightResult.variableIds[1])
         IN  [st EXCEPT
                 !.applications = Append(@,
                     [id |-> "app_" \o IntToString(st.context.nextId),
                      x1 |-> st.variables[leftVar].x,
                      x2 |-> st.variables[rightVar].x,
                      leftVarId |-> st.variables[leftVar].id,
                      rightVarId |-> st.variables[rightVar].id,
                      level |-> level]),
                 !.context.nextId = @ + 1,
                 !.variables = [i \in 1..Len(@) |->
                     IF i = leftVar \/ i = rightVar
                     THEN [@[i] EXCEPT !.appLevel = level]
                     ELSE @[i]]]

RECURSIVE analyzeTerm(_, _, _, _, _)
\* st is the context with the lambdas, variables and applications so far;
\* returns them after the call, with the TermResult
analyzeTerm(term, x, y, st, options) ==
    LET context == st.context
    IN  CASE term.type = "var" ->
            LET varId == nextId(context)
                lambdaIndex == term.index
                varX == x * context.gridSize + context.padding
                bound == lambdaIndex >= 0 /\ lambdaIndex < Len(context.lambdaIds)
                element ==
                    IF bound
                    THEN WithOptional(
                             [id |-> varId, x |-> varX, y |-> context.lambdaY[lambdaIndex + 1],
                              lambdaId |-> context.lambdaIds[lambdaIndex + 1],
                              index |-> lambdaIndex, appLevel |-> context.appLevel],
                             "name",
                             options.showVariableNames /\ MapHas(context.varMap, lambdaIndex),
                             IF MapHas(context.varMap, lambdaIndex)
                             THEN MapGet(context.varMap, lambdaIndex) ELSE "")
                    ELSE WithOptional(
                             [id |-> varId, x |-> varX, y |-> context.padding,
                              lambdaId |-> "free",
                              index |-> lambdaIndex, appLevel |-> context.appLevel],
                             "name", options.showVariableNames,
                             "free_" \o IntToString(lambdaIndex))
            IN  [st |-> [st EXCEPT !.context.nextId = @ + 1,
                                   !.variables = Append(@, element)],
                 result |-> [width |-> 1, variableIds |-> <<varId>>, variableX |-> <<x>>,
                             level |-> context.appLevel, yOffset |-> 0]]
          [] term.type = "lam" ->
            LET lambdaId == nextId(context)
                lambdaY == (y * context.gridSize) \div 2 + context.padding
                entered == [st EXCEPT !.context.depth = Max(@, y + 2),
                                      !.context.nextId = @ + 1,
                                      !.context.lambdaIds = <<lambdaId>> \o @,
                                      !.context.lambdaY = <<lambdaY>> \o @]
                body == analyzeTerm(term.body, x, y + 2, entered, options)
                \* context.varMap.get(y)
                named == y % 2 = 0 /\ MapHas(context.varMap, y \div 2)
                element ==
                    WithOptional(
                        [id |-> lambdaId, x |-> context.padding, y |-> lambdaY,
                         width |-> body.result.width * context.gridSize, index |-> y],
                        "paramName", options.showVariableNames /\ named,
                        IF named THEN MapGet(context.varMap, y \div 2) ELSE "")
            IN  [st |-> [body.st EXCEPT !.context.lambdaIds = Tail(@),
                                        !.context.lambdaY = Tail(@),
                                        !.lambdas = Append(@, element)],
                 result |-> [body.result EXCEPT !.level = 0, !.yOffset = 0]]
          [] term.type = "app" ->
            LET currentAppLevel == context.appLevel + 1
                \* Math.min(currentAppLevel * 0.5 + 0.5, 2.0), doubled
                staggerAmount == IF currentAppLevel + 1 < 4 THEN currentAppLevel + 1 ELSE 4
                staggerY == (staggerAmount * options.gridSize) \div 2
                left == analyzeTerm(term.left, x, y,
                                    [st EXCEPT !.context.appLevel = currentAppLevel], options)
                right == analyzeTerm(term.right, x + left.result.width, y + staggerAmount,
                                     left.st, options)
                connected == createApplicationConnections(left.result, right.result,
                                                          currentAppLevel, right.st)
                after == [connected EXCEPT !.context.appLevel = @ - 1]
            IN  [st |-> after,
                 result |-> [width |-> left.result.width + right.result.width,
                             variableIds |-> left.result.variableIds
                                             \o right.result.variableIds,
                             variableX |-> left.result.variableX \o right.result.variableX,
                             level |-> after.context.appLevel,
                             yOffset |-> staggerY]]

\* generateDiagram of this generator
generateDiagramWithNames(e, options) ==
    LET deBruijnTerm == toDeBruijn(e)
        context == [depth |-> 0,
                    varMap |-> IF options.showVariableNames /\ e.type = "abstraction"
                               THEN setupVariableNames(e, <<>>, 0)
                               ELSE <<>>,
                    lambdaIds |-> <<>>, lambdaY |-> <<>>,
                    gridSize |-> options.gridSize, padding |-> options.padding,
                    nextId |-> 0, appLevel |-> 0]
        analyzed == analyzeTerm(deBruijnTerm, 0, 0,
                                [context |-> context, lambdas |-> <<>>,
                                 variables |-> <<>>, applications |-> <<>>],
                                options)
    IN  [width |-> analyzed.result.width * options.gridSize + options.padding * 2,
         lambdas |-> analyzed.st.lambdas,
         variables |-> analyzed.st.variables,
         applications |-> analyzed.st.applications]

MathIdle ==
    /\ mathNode = Null /\ mathLambda = Null /\ mathSteps = <<>> /\ mathResult = Null
    /\ mathPc = "idle"

NamesIdle ==
    /\ namedExpr = Null /\ namedOptions = Null /\ namedDiagram = Null

SeqIdle ==
    /\ rsInitialExpr = Null /\ rsMounted = FALSE /\ rsSequence = <<>>
    /\ rsCurrentStep = 0 /\ rsIsPlaying = FALSE /\ rsPlaySpeed = 1000
    /\ rsTimer = Null /\ rsPending = <<>>

AppIdle == MathIdle /\ NamesIdle /\ SeqIdle

DiagramIdle == DbIdle /\ LayoutIdle /\ TextIdle /\ AppIdle

engineVars == <<subVars, stepVars, evalVars, visVars>>
EngineIdle == SubIdle /\ StepIdle /\ EvalIdle /\ VisIdle

SubstInit == SubInit /\ StepIdle /\ EvalIdle /\ VisIdle /\ DiagramIdle

SubstNext == Substitute /\ UNCHANGED <<diagramVars, stepVars, evalVars, visVars>>

SubstSpec == SubstInit /\ [][SubstNext]_vars

-----------------------------------------------------------------------------
(* One single-step reduction of a bounded term *)

StepSides == TermsUpTo(StepNames, MaxSideSize)

StepInputs ==
    TermsUpTo(StepNames, MaxStepSize)
    \cup {createApplication(l, r) : l \in StepSides, r \in StepSides}

BetaReduceCall ==
    /\ stepFn = "none"
    /\ stepFn' = "betaReduce"
    /\ stepResult' = betaReduce(stepExpr)
    /\ UNCHANGED stepExpr

BetaReduceApplicativeCall ==
    /\ stepFn = "none"
    /\ stepFn' = "betaReduceApplicative"
    /\ stepResult' = betaReduceApplicative(stepExpr)
    /\ UNCHANGED stepExpr

StepInit ==
    /\ stepExpr \in StepInputs /\ stepFn = "none" /\ stepResult = Null
    /\ SubIdle /\ EvalIdle /\ VisIdle /\ DiagramIdle

StepNext ==
    \/ BetaReduceCall /\ UNCHANGED <<diagramVars, subVars, evalVars, visVars>>
    \/ BetaReduceApplicativeCall /\ UNCHANGED <<diagramVars, subVars, evalVars, visVars>>

StepSpec == StepInit /\ [][StepNext]_vars

-----------------------------------------------------------------------------
(* reduceMany and reduceToNormalForm, one loop iteration per step *)

Strategies == {"normal", "applicative"}

Identity == createAbstraction("x", createVariable("x"))
Konst == createAbstraction("x", createAbstraction("y", createVariable("x")))
Delta == createAbstraction("x", createApplication(createVariable("x"), createVariable("x")))
Omega == createApplication(Delta, Delta)

\* ((\x.\y.x) a) b
KonstCase ==
    createApplication(createApplication(Konst, createVariable("a")), createVariable("b"))

\* ((\f.\x.f (f x)) g) z
ChurchTwoCase ==
    createApplication(
        createApplication(
            createAbstraction("f", createAbstraction("x",
                createApplication(createVariable("f"),
                    createApplication(createVariable("f"), createVariable("x"))))),
            createVariable("g")),
        createVariable("z"))

\* ((\x.\y.x) a) ((\z.z) b)
StrategyCase ==
    createApplication(
        createApplication(Konst, createVariable("a")),
        createApplication(createAbstraction("z", createVariable("z")), createVariable("b")))

\* (\x1.(\x.x) y) x
FreshClashCase ==
    createApplication(
        createAbstraction("x1",
            createApplication(Identity, createVariable("y"))),
        createVariable("x"))

\* ((\x.\y.x) y) Omega
DivergingArgumentCase ==
    createApplication(createApplication(Konst, createVariable("y")), Omega)

LiteralCases ==
    {Omega, KonstCase, ChurchTwoCase, StrategyCase, FreshClashCase, DivergingArgumentCase}

Atoms == {Identity, Konst, Delta, createVariable("y")}

\* the terms built from the atoms with exactly n applications
RECURSIVE AppsOf(_)
AppsOf(n) ==
    IF n = 0 THEN Atoms
    ELSE UNION {{createApplication(l, r) : l \in AppsOf(k), r \in AppsOf(n - 1 - k)} :
                k \in 0..(n - 1)}

EvalInputs == LiteralCases \cup UNION {AppsOf(n) : n \in 0..MaxApps}

\* a step that ignores the strategy
nextOfNormalOnly(s, e) == betaReduce(e)

\* lines 209-211: the step of the chosen strategy
nextOf(s, e) ==
    IF s = "normal" THEN betaReduce(e) ELSE betaReduceApplicative(e)

\* a loop that runs while count <= maxSteps
withinBudgetInclusive(n, budget) == n <= budget

\* lines 187 and 208: the loop condition
withinBudget(n, budget) == n < budget

ReduceManyCall(s) ==
    /\ pc = "idle"
    /\ traces[s] = <<>>
    /\ strategy' = s
    /\ steps' = <<expr>>
    /\ current' = expr
    /\ count' = 0
    /\ pc' = "reduceMany"
    /\ UNCHANGED <<expr, maxSteps, traces, normalForm>>

ReduceManyLoop ==
    /\ pc = "reduceMany"
    /\ withinBudget(count, maxSteps)
    /\ LET next == nextOf(strategy, current)
       IN  /\ next # Null
           /\ steps' = Append(steps, next)
           /\ current' = next
           /\ count' = count + 1
    /\ UNCHANGED <<expr, maxSteps, strategy, pc, traces, normalForm>>

ReduceManyReturn ==
    /\ pc = "reduceMany"
    /\ \/ ~withinBudget(count, maxSteps)
       \/ nextOf(strategy, current) = Null
    /\ traces' = [traces EXCEPT ![strategy] = steps]
    /\ pc' = "idle"
    /\ UNCHANGED <<expr, maxSteps, strategy, steps, current, count, normalForm>>

\* reduceToNormalForm's local `steps` is the variable count
ReduceToNormalFormCall ==
    /\ pc = "idle"
    /\ normalForm = Null
    /\ current' = expr
    /\ count' = 0
    /\ pc' = "reduceToNormalForm"
    /\ UNCHANGED <<expr, maxSteps, strategy, steps, traces, normalForm>>

ReduceToNormalFormLoop ==
    /\ pc = "reduceToNormalForm"
    /\ withinBudget(count, maxSteps)
    /\ LET reduced == betaReduce(current)
       IN  /\ reduced # Null
           /\ current' = reduced
           /\ count' = count + 1
    /\ UNCHANGED <<expr, maxSteps, strategy, steps, pc, traces, normalForm>>

ReduceToNormalFormReturn ==
    /\ pc = "reduceToNormalForm"
    /\ \/ ~withinBudget(count, maxSteps)
       \/ betaReduce(current) = Null
    /\ normalForm' = current
    /\ pc' = "idle"
    /\ UNCHANGED <<expr, maxSteps, strategy, steps, current, count, traces>>

EvalInit ==
    /\ \/ expr \in EvalInputs /\ maxSteps \in 0..MaxBudget
       \/ expr = Omega /\ maxSteps = 50
    /\ strategy = "normal" /\ steps = <<>> /\ current = expr /\ count = 0
    /\ pc = "idle"
    /\ traces = [s \in Strategies |-> <<>>] /\ normalForm = Null
    /\ SubIdle /\ StepIdle /\ VisIdle /\ DiagramIdle

EvalNext ==
    \/ \E s \in Strategies : ReduceManyCall(s) /\ UNCHANGED <<diagramVars, subVars, stepVars, visVars>>
    \/ ReduceManyLoop /\ UNCHANGED <<diagramVars, subVars, stepVars, visVars>>
    \/ ReduceManyReturn /\ UNCHANGED <<diagramVars, subVars, stepVars, visVars>>
    \/ ReduceToNormalFormCall /\ UNCHANGED <<diagramVars, subVars, stepVars, visVars>>
    \/ ReduceToNormalFormLoop /\ UNCHANGED <<diagramVars, subVars, stepVars, visVars>>
    \/ ReduceToNormalFormReturn /\ UNCHANGED <<diagramVars, subVars, stepVars, visVars>>

EvalSpec == EvalInit /\ [][EvalNext]_vars

-----------------------------------------------------------------------------
(* The Visualizer component: components/lambda/Visualizer.tsx.  A handler    *)
(* runs to its end before the next event is taken; its state updates are     *)
(* applied together when it returns.  stepsShown is the state `steps`.       *)

\* f (f (... (f x))), with n applications
RECURSIVE Iterate(_, _, _)
Iterate(f, x, n) == IF n = 0 THEN x ELSE createApplication(f, Iterate(f, x, n - 1))

\* (((\f.\x.f^9 x) (\g.\z.g (g z))) (\w.w)) y: 512 applications of the
\* identity to y, a term with a normal form that is more than
\* DefaultMaxSteps steps away
LongCase ==
    createApplication(
        createApplication(
            createApplication(
                createAbstraction("f", createAbstraction("x",
                    Iterate(createVariable("f"), createVariable("x"), 9))),
                createAbstraction("g", createAbstraction("z",
                    Iterate(createVariable("g"), createVariable("z"), 2)))),
            createAbstraction("w", createVariable("w"))),
        createVariable("y"))

\* the expressions typed or picked as examples
VisTerms == LiteralCases \cup Atoms \cup {LongCase}
    \cup {createApplication(Identity, createVariable("y")),
          createApplication(Konst, createApplication(Identity, createVariable("y")))}

\* what the two parsers make of an input: nothing to parse, a syntax error,
\* or a term
ParseOutcomes ==
    {[kind |-> "empty"], [kind |-> "invalid"]}
    \cup {[kind |-> "term", term |-> t] : t \in VisTerms}

parseExpression(input) ==
    CASE input.kind = "empty" ->
            /\ parsedExpression' = Null
            /\ currentExpression' = Null
            /\ error' = FALSE
            /\ stepsShown' = 0
            /\ canReduce' = FALSE
      [] input.kind = "term" ->
            /\ parsedExpression' = input.term
            /\ currentExpression' = input.term
            /\ error' = FALSE
            /\ stepsShown' = 0
            /\ canReduce' = (betaReduce(input.term) # Null)
      [] input.kind = "invalid" ->
            /\ error' = TRUE
            /\ parsedExpression' = Null
            /\ currentExpression' = Null
            /\ canReduce' = FALSE
            /\ UNCHANGED stepsShown

handleExpressionChange ==
    /\ handler = "idle"
    /\ \E input \in ParseOutcomes : parseExpression(input)
    /\ UNCHANGED <<handler, nfExpr, nfCount, evalVars>>

handleSelectExample ==
    /\ handler = "idle"
    /\ \E t \in VisTerms : parseExpression([kind |-> "term", term |-> t])
    /\ UNCHANGED <<handler, nfExpr, nfCount, evalVars>>

\* the Step button is disabled unless canReduce
handleReduce ==
    /\ handler = "idle"
    /\ canReduce
    /\ stepsShown < MaxShown
    /\ currentExpression # Null
    /\ LET reduced == betaReduce(currentExpression)
       IN  /\ reduced # Null
           /\ currentExpression' = reduced
           /\ stepsShown' = stepsShown + 1
           /\ canReduce' = (betaReduce(reduced) # Null)
    /\ UNCHANGED <<parsedExpression, error, handler, nfExpr, nfCount, evalVars>>

handleReset ==
    /\ handler = "idle"
    /\ parsedExpression # Null
    /\ currentExpression' = parsedExpression
    /\ stepsShown' = 0
    /\ canReduce' = (betaReduce(parsedExpression) # Null)
    /\ UNCHANGED <<parsedExpression, error, handler, nfExpr, nfCount, evalVars>>

\* lines 104-107: the To Normal Form button (disabled unless canReduce) calls
\* reduceToNormalForm(currentExpression) with the default budget
handleNormalForm ==
    /\ handler = "idle"
    /\ canReduce
    /\ currentExpression # Null
    /\ handler' = "handleNormalForm"
    /\ expr' = currentExpression
    /\ maxSteps' = DefaultMaxSteps
    /\ current' = currentExpression
    /\ count' = 0
    /\ normalForm' = Null
    /\ pc' = "reduceToNormalForm"
    /\ UNCHANGED <<strategy, steps, traces, nfExpr, nfCount,
                   parsedExpression, currentExpression, stepsShown, canReduce, error>>

\* lines 112-113: reduceToNormalForm has returned; let count = 0, expr = currentExpression
handleNormalFormCountInit ==
    /\ handler = "handleNormalForm"
    /\ pc = "idle"
    /\ nfExpr = Null
    /\ nfExpr' = currentExpression
    /\ nfCount' = 0
    /\ UNCHANGED <<handler, evalVars,
                   parsedExpression, currentExpression, stepsShown, canReduce, error>>

\* lines 114-119: one iteration of while (true) that finds a reduct
handleNormalFormCountLoop ==
    /\ handler = "handleNormalForm"
    /\ nfExpr # Null
    /\ nfCount < MaxCount
    /\ LET reduced == betaReduce(nfExpr)
       IN  /\ reduced # Null
           /\ nfExpr' = reduced
           /\ nfCount' = nfCount + 1
    /\ UNCHANGED <<handler, evalVars,
                   parsedExpression, currentExpression, stepsShown, canReduce, error>>

\* lines 116 and 108, 121-122: the loop breaks and the handler returns; the
\* state updates take effect
handleNormalFormReturn ==
    /\ handler = "handleNormalForm"
    /\ nfExpr # Null
    /\ betaReduce(nfExpr) = Null
    /\ currentExpression' = normalForm
    /\ stepsShown' = stepsShown + nfCount
    /\ canReduce' = FALSE
    /\ handler' = "idle"
    /\ nfExpr' = Null
    /\ nfCount' = 0
    /\ UNCHANGED <<parsedExpression, error, evalVars>>

VisInit ==
    /\ parsedExpression = Null /\ currentExpression = Null /\ stepsShown = 0
    /\ canReduce = FALSE /\ error = FALSE /\ handler = "idle"
    /\ nfExpr = Null /\ nfCount = 0
    /\ SubIdle /\ StepIdle /\ EvalIdle /\ DiagramIdle

VisNext ==
    \/ handleExpressionChange /\ UNCHANGED <<diagramVars, subVars, stepVars>>
    \/ handleSelectExample /\ UNCHANGED <<diagramVars, subVars, stepVars>>
    \/ handleReduce /\ UNCHANGED <<diagramVars, subVars, stepVars>>
    \/ handleReset /\ UNCHANGED <<diagramVars, subVars, stepVars>>
    \/ handleNormalForm /\ UNCHANGED <<diagramVars, subVars, stepVars>>
    \/ ReduceToNormalFormLoop /\ UNCHANGED <<diagramVars, subVars, stepVars, visVars>>
    \/ ReduceToNormalFormReturn /\ UNCHANGED <<diagramVars, subVars, stepVars, visVars>>
    \/ handleNormalFormCountInit /\ UNCHANGED <<diagramVars, subVars, stepVars>>
    \/ handleNormalFormCountLoop /\ UNCHANGED <<diagramVars, subVars, stepVars>>
    \/ handleNormalFormReturn /\ UNCHANGED <<diagramVars, subVars, stepVars>>

VisSpec == VisInit /\ [][VisNext]_vars

-----------------------------------------------------------------------------
(* One conversion of a named term to de Bruijn form and back, and one       *)
(* conversion of a de Bruijn term given directly                            *)

DbNames == {"x", "y", "z"}

\* abstractions nested k deep around a body, the parameters alternating
RECURSIVE Nest(_, _)
Nest(k, body) ==
    IF k = 0 THEN body
    ELSE createAbstraction(IF k % 2 = 0 THEN "x" ELSE "y", Nest(k - 1, body))

DbInputs ==
    TermsUpTo(DbNames, MaxDbSize)
    \cup {Nest(k, b) : k \in 1..MaxNest, b \in TermsUpTo({"x", "y"}, 3)}

RECURSIVE DbTermsOfSize(_)
DbTermsOfSize(n) ==
    IF n = 1 THEN {DbVar(i) : i \in -1..MaxRawIndex}
    ELSE {DbLam(b) : b \in DbTermsOfSize(n - 1)}
         \cup UNION {{DbApp(l, r) : l \in DbTermsOfSize(k), r \in DbTermsOfSize(n - 1 - k)}
                     : k \in 1..(n - 2)}

\* terms whose optional fields are absent
DbMalformed ==
    {[type |-> "var"], [type |-> "lam"], DbLam([type |-> "app", left |-> DbVar(0)])}

DbRawTerms == UNION {DbTermsOfSize(n) : n \in 1..MaxRawSize} \cup DbMalformed

ToDeBruijnCall ==
    /\ dbExpr # Null /\ dbTerm = Null
    /\ dbTerm' = toDeBruijn(dbExpr)
    /\ UNCHANGED <<dbExpr, dbBack, dbDims>>

FromDeBruijnCall ==
    /\ dbTerm # Null /\ dbTerm # Thrown /\ dbBack = Null
    /\ dbBack' = fromDeBruijn(dbTerm)
    /\ UNCHANGED <<dbExpr, dbTerm, dbDims>>

CalculateDimensionsCall ==
    /\ dbTerm # Null /\ dbTerm # Thrown /\ dbDims = Null
    /\ dbDims' = calculateDimensions(dbTerm)
    /\ UNCHANGED <<dbExpr, dbTerm, dbBack>>

DbInit ==
    /\ \/ dbExpr \in DbInputs /\ dbTerm = Null
       \/ dbExpr = Null /\ dbTerm \in DbRawTerms
    /\ dbBack = Null /\ dbDims = Null
    /\ LayoutIdle /\ TextIdle /\ EngineIdle /\ AppIdle

DbNext ==
    \/ ToDeBruijnCall /\ UNCHANGED <<layoutVars, textVars, engineVars, appVars>>
    \/ FromDeBruijnCall /\ UNCHANGED <<layoutVars, textVars, engineVars, appVars>>
    \/ CalculateDimensionsCall /\ UNCHANGED <<layoutVars, textVars, engineVars, appVars>>

DbSpec == DbInit /\ [][DbNext]_vars

-----------------------------------------------------------------------------
(* Layout calls on the two exported generator instances.  The caller keeps  *)
(* the first call and the latest one, each with the diagram it returned.    *)

LayoutNames == {"x", "y"}

\* (x y) z, λx.λy.x y x, λx.(λx.x) x, λf.λx.f (f x), (λx.x x) y, x (y z)
LayoutCases ==
    {createApplication(createApplication(createVariable("x"), createVariable("y")),
                       createVariable("z")),
     createAbstraction("x", createAbstraction("y",
         createApplication(createApplication(createVariable("x"), createVariable("y")),
                           createVariable("x")))),
     createAbstraction("x", createApplication(Identity, createVariable("x"))),
     createAbstraction("f", createAbstraction("x",
         createApplication(createVariable("f"),
             createApplication(createVariable("f"), createVariable("x"))))),
     createApplication(Delta, createVariable("y")),
     createApplication(createVariable("x"),
                       createApplication(createVariable("y"), createVariable("z")))}

\* the terms laid out once, and the terms laid out again and again
LayoutInputs ==
    TermsUpTo(LayoutNames, MaxLayoutSize) \cup LayoutCases
    \cup {Nest(k, createVariable("x")) : k \in 1..MaxLayoutNest}
RepeatInputs == TermsUpTo(LayoutNames, MaxRepeatSize) \cup LayoutCases

GridOptions ==
    {DefaultOptions,
     [style |-> "minimal", showVariableNames |-> FALSE, showNodeLabels |-> FALSE]}

Remember(call) ==
    /\ layoutLast' = call
    /\ layoutFirst' = IF layoutFirst = Null THEN call ELSE layoutFirst
    /\ layoutCalls' = layoutCalls + 1
    /\ layoutOthers' = IF layoutFirst # Null /\ call.expr # layoutFirst.expr
                       THEN layoutOthers + 1 ELSE layoutOthers

\* the caller of gridTrompGenerator (components/lambda/TrompDiagram.tsx)
GenerateGridCall(e, options) ==
    /\ layoutFirst # Null => layoutFirst.generator = "grid"
    /\ LET out == generateGrid(gridGen, e, options)
       IN  /\ gridGen' = out.self
           /\ Remember([generator |-> "grid", expr |-> e, options |-> options,
                        result |-> out.result])
    /\ UNCHANGED trompGen

\* the caller of trompDiagramGenerator (components/lambda/Visualizer.tsx)
GenerateDiagramCall(e, alternativeStyle) ==
    /\ layoutFirst # Null => layoutFirst.generator = "tromp"
    /\ LET out == generateDiagram(trompGen, e, alternativeStyle)
       IN  /\ trompGen' = out.self
           /\ Remember([generator |-> "tromp", expr |-> e,
                        alternativeStyle |-> alternativeStyle,
                        result |-> out.result])
    /\ UNCHANGED gridGen

LayoutInit ==
    /\ gridGen = [nodeCounter |-> 0, linkCounter |-> 0]
    /\ trompGen = NewTrompDiagramGenerator
    /\ layoutFirst = Null /\ layoutLast = Null /\ layoutCalls = 0 /\ layoutOthers = 0
    /\ DbIdle /\ TextIdle /\ EngineIdle /\ AppIdle

\* one layout of a bounded term
LayoutOnceNext ==
    \/ /\ layoutCalls = 0
       /\ \E e \in LayoutInputs, options \in GridOptions : GenerateGridCall(e, options)
       /\ UNCHANGED <<dbVars, textVars, engineVars, appVars>>
    \/ /\ layoutCalls = 0
       /\ \E e \in LayoutInputs, alternativeStyle \in BOOLEAN :
             GenerateDiagramCall(e, alternativeStyle)
       /\ UNCHANGED <<dbVars, textVars, engineVars, appVars>>

LayoutOnceSpec == LayoutInit /\ [][LayoutOnceNext]_vars

\* layouts one after another on the same generator
LayoutNext ==
    \/ /\ layoutCalls < MaxCalls
       /\ \E e \in RepeatInputs, options \in GridOptions : GenerateGridCall(e, options)
       /\ UNCHANGED <<dbVars, textVars, engineVars, appVars>>
    \/ /\ layoutCalls < MaxCalls
       /\ \E e \in RepeatInputs, alternativeStyle \in BOOLEAN :
             GenerateDiagramCall(e, alternativeStyle)
       /\ UNCHANGED <<dbVars, textVars, engineVars, appVars>>

LayoutSpec == LayoutInit /\ [][LayoutNext]_vars

-----------------------------------------------------------------------------
(* A term written out and read back, and a string read directly *)

TextInputs == TermsUpTo(TextNames, MaxTextSize)

\* "\x. x", "  x  y1 ", "(x", "x)", "λx", "λ.x", "x λx.x", "", "x.y",
\* "(x y1) )", "λx.(x", ")"
TextStrings ==
    {<<"\\", "x", ".", " ", "x">>,
     <<" ", " ", "x", " ", " ", "y", "1", " ">>,
     <<"(", "x">>,
     <<"x", ")">>,
     <<"λ", "x">>,
     <<"λ", ".", "x">>,
     <<"x", " ", "λ", "x", ".", "x">>,
     <<>>,
     <<"x", ".", "y">>,
     <<"(", "x", " ", "y", "1", ")", " ", ")">>,
     <<"λ", "x", ".", "(", "x">>,
     <<")">>}

ToStringCall ==
    /\ textPc = "term"
    /\ textString' = toString(textExpr)
    /\ textPc' = "string"
    /\ UNCHANGED <<textExpr, textParsed, lambdaParser, parserResult>>

ParseCall ==
    /\ textPc = "string"
    /\ textParsed' = parse(textString)
    /\ textPc' = "parsed"
    /\ UNCHANGED <<textExpr, textString, lambdaParser, parserResult>>

\* lambdaParser.parse(input), called once on the string
ParserParseCall ==
    /\ textPc \in {"string", "parsed"}
    /\ parserResult = Null
    /\ LET call == parserParse(lambdaParser, textString)
       IN  /\ lambdaParser' = call.self
           /\ parserResult' = call.result
    /\ UNCHANGED <<textExpr, textString, textParsed, textPc>>

TextInit ==
    /\ \/ textExpr \in TextInputs /\ textString = <<>> /\ textPc = "term"
       \/ textExpr = Null /\ textString \in TextStrings /\ textPc = "string"
    /\ textParsed = Null
    /\ lambdaParser = NewLambdaParser /\ parserResult = Null
    /\ DbIdle /\ LayoutIdle /\ EngineIdle /\ AppIdle

TextNext ==
    \/ ToStringCall /\ UNCHANGED <<dbVars, layoutVars, engineVars, appVars>>
    \/ ParseCall /\ UNCHANGED <<dbVars, layoutVars, engineVars, appVars>>
    \/ ParserParseCall /\ UNCHANGED <<dbVars, layoutVars, engineVars, appVars>>

TextSpec == TextInit /\ [][TextNext]_vars

-----------------------------------------------------------------------------
(* One call of evaluateMathAsLambda on a bounded arithmetic expression *)

MathNumbers == {[type |-> "number", value |-> n] : n \in 0..MaxNumber}

MathInputs ==
    MathNumbers
    \cup {[type |-> "binaryOp", operator |-> op, left |-> l, right |-> r] :
            op \in {"+", "-", "*", "/"}, l \in MathNumbers, r \in MathNumbers}

\* const lambdaExpr = convertMathToLambda(node), and the first lines of evaluate
ConvertMathToLambdaCall ==
    /\ mathPc = "convert"
    /\ LET lambdaExpr == convertMathToLambda(mathNode)
       IN  IF lambdaExpr = Thrown
           THEN /\ mathPc' = "thrown"
                /\ UNCHANGED <<mathLambda, mathSteps>>
           ELSE /\ mathLambda' = lambdaExpr
                /\ mathSteps' = <<lambdaExpr>>
                /\ mathPc' = "evaluate"
    /\ UNCHANGED <<mathNode, mathResult>>

\* one iteration of evaluate's while (true) that changes the term
EvaluateLoop ==
    /\ mathPc = "evaluate"
    /\ LET step == betaReduceNode(mathSteps[Len(mathSteps)])
       IN  /\ step.changed
           /\ mathSteps' = Append(mathSteps, step.reduced)
    /\ UNCHANGED <<mathNode, mathLambda, mathResult, mathPc>>

\* evaluate returns, extractNumber reads the result and evaluateMathAsLambda
\* returns
EvaluateMathAsLambdaReturn ==
    /\ mathPc = "evaluate"
    /\ LET result == mathSteps[Len(mathSteps)]
           numericResult == extractNumber(result)
       IN  /\ ~betaReduceNode(result).changed
           /\ IF numericResult = Thrown
              THEN mathPc' = "thrown" /\ UNCHANGED mathResult
              ELSE /\ mathResult' = [lambdaExpr |-> mathLambda, steps |-> mathSteps,
                                     result |-> numericResult]
                   /\ mathPc' = "done"
    /\ UNCHANGED <<mathNode, mathLambda, mathSteps>>

MathInit ==
    /\ mathNode \in MathInputs
    /\ mathLambda = Null /\ mathSteps = <<>> /\ mathResult = Null /\ mathPc = "convert"
    /\ NamesIdle /\ SeqIdle /\ DbIdle /\ LayoutIdle /\ TextIdle /\ EngineIdle

MathNext ==
    \/ ConvertMathToLambdaCall
       /\ UNCHANGED <<namesVars, seqVars, dbVars, layoutVars, textVars, engineVars>>
    \/ EvaluateLoop
       /\ UNCHANGED <<namesVars, seqVars, dbVars, layoutVars, textVars, engineVars>>
    \/ EvaluateMathAsLambdaReturn
       /\ UNCHANGED <<namesVars, seqVars, dbVars, layoutVars, textVars, engineVars>>

MathSpec == MathInit /\ [][MathNext]_vars

-----------------------------------------------------------------------------
(* One call of the named generator's generateDiagram on a bounded term *)

NamedNames == {"x", "y"}

NamedInputs == TermsUpTo(NamedNames, MaxNamedSize)

GenerateDiagramWithNamesCall(options) ==
    /\ namedDiagram = Null
    /\ namedOptions' = options
    /\ namedDiagram' = generateDiagramWithNames(namedExpr, options)
    /\ UNCHANGED namedExpr

NamesInit ==
    /\ namedExpr \in NamedInputs
    /\ namedOptions = Null /\ namedDiagram = Null
    /\ MathIdle /\ SeqIdle /\ DbIdle /\ LayoutIdle /\ TextIdle /\ EngineIdle

NamesNext ==
    \E showVariableNames \in BOOLEAN :
        /\ GenerateDiagramWithNamesCall(
               [NamedDefaultOptions EXCEPT !.showVariableNames = showVariableNames])
        /\ UNCHANGED <<mathVars, seqVars, dbVars, layoutVars, textVars, engineVars>>

NamesSpec == NamesInit /\ [][NamesNext]_vars

-----------------------------------------------------------------------------
(* The ReductionSequence component: components/lambda/ReductionSequence.tsx, *)
(* as the Visualizer shows it.  An event handler runs to its end and React   *)
(* renders its state updates at once, with the state updates of a timer that *)
(* has fired before; a timer's state update on its own is rendered in a task *)
(* of its own.  The updates are applied in the order they were made.         *)

\* reduceMany's default for maxSteps
DefaultSequenceSteps == 100

RECURSIVE reduceManySteps(_, _, _, _, _)
\* the while loop of reduceMany
reduceManySteps(soFar, currentExpr, n, s, budget) ==
    IF withinBudget(n, budget) /\ nextOf(s, currentExpr) # Null
    THEN reduceManySteps(Append(soFar, nextOf(s, currentExpr)), nextOf(s, currentExpr),
                         n + 1, s, budget)
    ELSE soFar

reduceMany(e, s, budget) == reduceManySteps(<<e>>, e, 0, s, budget)

\* the expressions the Visualizer passes as initialExpr
SeqInputs ==
    {Identity, createApplication(Identity, createVariable("y")), KonstCase,
     ChurchTwoCase, Omega}

\* the values of the speed slider that are tried
PlaySpeeds == {200, 1000}

\* the updater of the next button's setCurrentStep, with no upper limit
nextStepUnbounded(length, step) == step + 1

\* step => Math.min(sequence.length - 1, step + 1)
nextStep(length, step) == IF length - 1 < step + 1 THEN length - 1 ELSE step + 1

\* step => Math.max(0, step - 1)
previousStep(step) == Max(0, step - 1)

\* a timer callback that starts again at the first step
timerCallbackWrapping(capturedStep, length) ==
    IF capturedStep < length - 1
    THEN [set |-> "currentStep", updater |-> "increment"]
    ELSE [set |-> "currentStep", updater |-> "value", value |-> 0]

\* the state update made by the callback of setTimeout, which sees the
\* currentStep of the render that set the timer
timerCallback(capturedStep, length) ==
    IF capturedStep < length - 1
    THEN [set |-> "currentStep", updater |-> "increment"]
    ELSE [set |-> "isPlaying", updater |-> "value", value |-> FALSE]

\* the state after one queued update
applyUpdate(state, update) ==
    IF update.set = "isPlaying" THEN [state EXCEPT !.isPlaying = update.value]
    ELSE IF update.set = "playSpeed" THEN [state EXCEPT !.playSpeed = update.value]
    ELSE CASE update.updater = "value" -> [state EXCEPT !.currentStep = update.value]
           [] update.updater = "increment" -> [state EXCEPT !.currentStep = @ + 1]
           [] update.updater = "next" ->
                [state EXCEPT !.currentStep = nextStep(Len(rsSequence), @)]
           [] update.updater = "previous" ->
                [state EXCEPT !.currentStep = previousStep(@)]

RECURSIVE applyUpdates(_, _)
applyUpdates(state, updates) ==
    IF updates = <<>> THEN state
    ELSE applyUpdates(applyUpdate(state, Head(updates)), Tail(updates))

\* a render of the component after the queued updates and those given, and
\* the effect of lines 23-35, which runs when one of its dependencies changed
Render(updates) ==
    LET before == [currentStep |-> rsCurrentStep, isPlaying |-> rsIsPlaying,
                   playSpeed |-> rsPlaySpeed]
        after == applyUpdates(before, rsPending \o updates)
    IN  /\ rsCurrentStep' = after.currentStep
        /\ rsIsPlaying' = after.isPlaying
        /\ rsPlaySpeed' = after.playSpeed
        /\ rsPending' = <<>>
        /\ rsTimer' = IF after = before THEN rsTimer
                      ELSE IF after.isPlaying
                      THEN [type |-> "timeout", currentStep |-> after.currentStep,
                            playSpeed |-> after.playSpeed]
                      ELSE Null

\* the Visualizer starts to show the component; line 16 computes the sequence
Mount(e) ==
    /\ ~rsMounted
    /\ rsMounted' = TRUE
    /\ rsInitialExpr' = e
    /\ rsSequence' = reduceMany(e, "normal", DefaultSequenceSteps)
    /\ rsCurrentStep' = 0
    /\ rsIsPlaying' = FALSE
    /\ rsPlaySpeed' = 1000
    /\ rsTimer' = Null
    /\ rsPending' = <<>>

\* the Visualizer parses another valid input while the component is shown
\* and passes the new parsedExpression as initialExpr
ChangeInitialExpr(e) ==
    /\ rsMounted
    /\ e # rsInitialExpr
    /\ rsInitialExpr' = e
    /\ Render(<<>>)
    /\ UNCHANGED <<rsMounted, rsSequence>>

\* the Visualizer stops showing the component; the cleanup clears the timer
Unmount ==
    /\ rsMounted
    /\ rsMounted' = FALSE
    /\ rsInitialExpr' = Null
    /\ rsSequence' = <<>>
    /\ rsCurrentStep' = 0
    /\ rsIsPlaying' = FALSE
    /\ rsPlaySpeed' = 1000
    /\ rsTimer' = Null
    /\ rsPending' = <<>>

\* the first button
ClickFirst ==
    /\ rsMounted
    /\ rsCurrentStep # 0
    /\ Render(<<[set |-> "currentStep", updater |-> "value", value |-> 0]>>)
    /\ UNCHANGED <<rsInitialExpr, rsMounted, rsSequence>>

\* the previous button
ClickPrevious ==
    /\ rsMounted
    /\ rsCurrentStep # 0
    /\ Render(<<[set |-> "currentStep", updater |-> "previous"]>>)
    /\ UNCHANGED <<rsInitialExpr, rsMounted, rsSequence>>

\* the play/pause button
ClickPlayPause ==
    /\ rsMounted
    /\ Render(<<[set |-> "isPlaying", updater |-> "value", value |-> ~rsIsPlaying]>>)
    /\ UNCHANGED <<rsInitialExpr, rsMounted, rsSequence>>

\* the next button
ClickNext ==
    /\ rsMounted
    /\ rsCurrentStep # Len(rsSequence) - 1
    /\ Render(<<[set |-> "currentStep", updater |-> "next"]>>)
    /\ UNCHANGED <<rsInitialExpr, rsMounted, rsSequence>>

\* the last button
ClickLast ==
    /\ rsMounted
    /\ rsCurrentStep # Len(rsSequence) - 1
    /\ Render(<<[set |-> "currentStep", updater |-> "value",
                 value |-> Len(rsSequence) - 1]>>)
    /\ UNCHANGED <<rsInitialExpr, rsMounted, rsSequence>>

\* the speed slider
ChangePlaySpeed(speed) ==
    /\ rsMounted
    /\ speed # rsPlaySpeed
    /\ Render(<<[set |-> "playSpeed", updater |-> "value", value |-> speed]>>)
    /\ UNCHANGED <<rsInitialExpr, rsMounted, rsSequence>>

\* the timer set by the effect fires and its callback runs
TimerFires ==
    /\ rsMounted
    /\ rsTimer # Null
    /\ rsTimer' = Null
    /\ rsPending' = Append(rsPending, timerCallback(rsTimer.currentStep, Len(rsSequence)))
    /\ UNCHANGED <<rsInitialExpr, rsMounted, rsSequence, rsCurrentStep, rsIsPlaying,
                   rsPlaySpeed>>

\* React renders the state update of the timer callback
RenderPending ==
    /\ rsMounted
    /\ rsPending # <<>>
    /\ Render(<<>>)
    /\ UNCHANGED <<rsInitialExpr, rsMounted, rsSequence>>

SeqOthers == <<mathVars, namesVars, dbVars, layoutVars, textVars, engineVars>>

SeqInit ==
    /\ SeqIdle
    /\ MathIdle /\ NamesIdle /\ DbIdle /\ LayoutIdle /\ TextIdle /\ EngineIdle

SeqNext ==
    \/ \E e \in SeqInputs : Mount(e) /\ UNCHANGED SeqOthers
    \/ \E e \in SeqInputs : ChangeInitialExpr(e) /\ UNCHANGED SeqOthers
    \/ Unmount /\ UNCHANGED SeqOthers
    \/ ClickFirst /\ UNCHANGED SeqOthers
    \/ ClickPrevious /\ UNCHANGED SeqOthers
    \/ ClickPlayPause /\ UNCHANGED SeqOthers
    \/ ClickNext /\ UNCHANGED SeqOthers
    \/ ClickLast /\ UNCHANGED SeqOthers
    \/ \E speed \in PlaySpeeds : ChangePlaySpeed(speed) /\ UNCHANGED SeqOthers
    \/ TimerFires /\ UNCHANGED SeqOthers
    \/ RenderPending /\ UNCHANGED SeqOthers

SeqSpec == SeqInit /\ [][SeqNext]_vars

(* Autoplay on its own: the component is shown, the user switches autoplay on
   and does nothing else.  A timer that is set fires, and React renders a
   state update that is queued. *)

SwitchAutoplayOn == ~rsIsPlaying /\ ClickPlayPause

AutoplayTick == TimerFires /\ UNCHANGED SeqOthers

AutoplayRender == RenderPending /\ UNCHANGED SeqOthers

AutoplayNext ==
    \/ \E e \in SeqInputs : Mount(e) /\ UNCHANGED SeqOthers
    \/ SwitchAutoplayOn /\ UNCHANGED SeqOthers
    \/ AutoplayTick
    \/ AutoplayRender

AutoplaySpec ==
    /\ SeqInit
    /\ [][AutoplayNext]_vars
    /\ WF_vars(AutoplayTick)
    /\ WF_vars(AutoplayRender)

-----------------------------------------------------------------------------
(* Binding structure of a term: bound occurrences as the number of binders   *)
(* between the occurrence and its binder, free occurrences by name.          *)

RECURSIVE IndexIn(_, _, _)
IndexIn(ctx, name, i) ==
    IF i > Len(ctx) THEN -1
    ELSE IF ctx[i] = name THEN i - 1
    ELSE IndexIn(ctx, name, i + 1)

RECURSIVE Binding(_, _)
Binding(e, ctx) ==
    CASE e.type = "variable" ->
            LET i == IndexIn(ctx, e.name, 1)
            IN  IF i >= 0 THEN [type |-> "bound", index |-> i]
                ELSE [type |-> "free", name |-> e.name]
      [] e.type = "abstraction" ->
            [type |-> "lam", body |-> Binding(e.body, <<e.param>> \o ctx)]
      [] e.type = "application" ->
            [type |-> "app", left |-> Binding(e.left, ctx),
                             right |-> Binding(e.right, ctx)]

AlphaEquivalent(a, b) == Binding(a, <<>>) = Binding(b, <<>>)

\* textbook substitution t[p := r] on binding structures: every free
\* occurrence of p becomes r, nothing else changes
RECURSIVE ReplaceFree(_, _, _)
ReplaceFree(t, p, r) ==
    CASE t.type = "bound" -> t
      [] t.type = "free" -> IF t.name = p THEN r ELSE t
      [] t.type = "lam" -> [type |-> "lam", body |-> ReplaceFree(t.body, p, r)]
      [] t.type = "app" -> [type |-> "app", left |-> ReplaceFree(t.left, p, r),
                                            right |-> ReplaceFree(t.right, p, r)]

\* a term contains a beta-redex: an application whose left side is an
\* abstraction, at any depth
RECURSIVE HasRedex(_)
HasRedex(e) ==
    CASE e.type = "application" ->
            e.left.type = "abstraction" \/ HasRedex(e.left) \/ HasRedex(e.right)
      [] e.type = "abstraction" -> HasRedex(e.body)
      [] OTHER -> FALSE

-----------------------------------------------------------------------------
(* Properties of substitute *)

\* C1: substitute(t, p, r) is alpha-equivalent to the capture-avoiding
\* substitution t[p := r]
SubstituteIsCaptureAvoiding ==
    subResult # Null =>
        Binding(subResult, <<>>) =
            ReplaceFree(Binding(subExpr, <<>>), subParam, Binding(subReplacement, <<>>))

\* the case of substitute that renames: the binder of an abstraction occurs
\* free in the replacement and is not the substituted name
RenameCase ==
    /\ subResult # Null
    /\ subExpr.type = "abstraction"
    /\ subExpr.param # subParam
    /\ containsFreeVariable(subReplacement, subExpr.param)

\* C7: in the renaming case the result is an abstraction over a fresh name,
\* free neither in the body nor in the replacement; no occurrence of the old
\* binder name v is bound by the renamed abstraction, and the occurrences of v
\* brought in by the replacement are free in the result
BinderRenamedFresh ==
    RenameCase =>
        /\ subResult.type = "abstraction"
        /\ subResult.param # subExpr.param
        /\ ~containsFreeVariable(subExpr.body, subResult.param)
        /\ ~containsFreeVariable(subReplacement, subResult.param)
        /\ ~(subResult.param = subExpr.param
              /\ containsFreeVariable(subResult.body, subExpr.param))
        /\ containsFreeVariable(subExpr.body, subParam)
              => containsFreeVariable(subResult, subExpr.param)

\* a renaming whose first candidate x1 is taken, with the substituted name
\* occurring in the body
BinderRenamedFreshWitness ==
    /\ RenameCase
    /\ containsFreeVariable(subExpr.body, subParam)
    /\ subResult.param = "x2"

-----------------------------------------------------------------------------
(* Properties of the single reduction steps *)

\* C2: betaReduce contracts the leftmost-outermost redex: a top-level redex
\* becomes substitute(body, param, arg); otherwise an application reduces its
\* left side when that contains a redex and its right side only when the left
\* contains none, keeping the other side; an abstraction reduces its body and
\* keeps its param
BetaReduceLeftmostOutermost ==
    stepFn = "betaReduce" =>
        CASE stepExpr.type = "application" ->
                IF stepExpr.left.type = "abstraction"
                THEN stepResult = substitute(stepExpr.left.body, stepExpr.left.param,
                                             stepExpr.right)
                ELSE IF HasRedex(stepExpr.left)
                THEN /\ stepResult.type = "application"
                     /\ stepResult.right = stepExpr.right
                     /\ stepResult.left # Null
                     /\ stepResult.left = betaReduce(stepExpr.left)
                ELSE IF HasRedex(stepExpr.right)
                THEN /\ stepResult.type = "application"
                     /\ stepResult.left = stepExpr.left
                     /\ stepResult.right # Null
                     /\ stepResult.right = betaReduce(stepExpr.right)
                ELSE stepResult = Null
          [] stepExpr.type = "abstraction" ->
                IF HasRedex(stepExpr.body)
                THEN /\ stepResult.type = "abstraction"
                     /\ stepResult.param = stepExpr.param
                     /\ stepResult.body # Null
                     /\ stepResult.body = betaReduce(stepExpr.body)
                ELSE stepResult = Null
          [] OTHER -> TRUE

\* both sides of an application hold a redex and the left one was reduced
BetaReduceLeftmostOutermostWitness ==
    /\ stepFn = "betaReduce"
    /\ stepExpr.type = "application"
    /\ stepExpr.left.type = "application"
    /\ HasRedex(stepExpr.left) /\ HasRedex(stepExpr.right)
    /\ stepResult.right = stepExpr.right
    /\ stepResult.left # stepExpr.left

\* C3: betaReduce returns null exactly for the terms without a redex, in
\* particular for every variable
BetaReduceNullIffNormal ==
    stepFn = "betaReduce" =>
        /\ (stepResult = Null) <=> ~HasRedex(stepExpr)
        /\ stepExpr.type = "variable" => stepResult = Null

\* an abstraction whose body holds the only redex is reported reducible
BetaReduceNullIffNormalWitness ==
    /\ stepFn = "betaReduce"
    /\ stepExpr.type = "abstraction"
    /\ HasRedex(stepExpr)
    /\ stepResult # Null

\* C9: betaReduceApplicative reduces the argument of an application when it
\* is reducible, otherwise the function position, and contracts a top-level
\* redex only when neither is reducible and the argument is a value
ApplicativeArgumentFirst ==
    (stepFn = "betaReduceApplicative" /\ stepExpr.type = "application") =>
        IF HasRedex(stepExpr.right)
        THEN /\ stepResult.type = "application"
             /\ stepResult.left = stepExpr.left
             /\ stepResult.right # Null
             /\ stepResult.right = betaReduceApplicative(stepExpr.right)
        ELSE IF HasRedex(stepExpr.left)
        THEN /\ stepResult.type = "application"
             /\ stepResult.right = stepExpr.right
             /\ stepResult.left # Null
             /\ stepResult.left = betaReduceApplicative(stepExpr.left)
        ELSE IF stepExpr.left.type = "abstraction"
        THEN /\ stepResult = substitute(stepExpr.left.body, stepExpr.left.param,
                                        stepExpr.right)
             /\ isValue(stepExpr.right)
             /\ \/ stepExpr.right.type \in {"abstraction", "variable"}
                \/ /\ stepExpr.right.type = "application"
                   /\ betaReduceApplicative(stepExpr.right) = Null
        ELSE stepResult = Null

\* a top-level redex whose argument is reducible: the argument is reduced
\* and the redex is kept
ApplicativeArgumentFirstWitness ==
    /\ stepFn = "betaReduceApplicative"
    /\ stepExpr.type = "application"
    /\ stepExpr.left.type = "abstraction"
    /\ HasRedex(stepExpr.right)
    /\ stepResult.type = "application"
    /\ stepResult.left = stepExpr.left
    /\ stepResult.right # stepExpr.right

-----------------------------------------------------------------------------
(* Properties of reduceMany and reduceToNormalForm *)

Last(seq) == seq[Len(seq)]

\* C4: a returned trace starts with the input, every later element is one
\* step of the chosen strategy applied to the element before it, it has at
\* most maxSteps + 1 elements, and when it has fewer its last element has no
\* step under that strategy
ReduceManyIsTrace ==
    \A s \in Strategies :
        LET tr == traces[s]
        IN  tr # <<>> =>
              /\ tr[1] = expr
              /\ \A i \in 2..Len(tr) :
                    /\ tr[i] # Null
                    /\ s = "normal" => tr[i] = betaReduce(tr[i - 1])
                    /\ s = "applicative" => tr[i] = betaReduceApplicative(tr[i - 1])
              /\ Len(tr) <= maxSteps + 1
              /\ Len(tr) < maxSteps + 1 =>
                    /\ s = "normal" => betaReduce(Last(tr)) = Null
                    /\ s = "applicative" => betaReduceApplicative(Last(tr)) = Null

\* an applicative trace cut by the budget and a normal trace that ended
\* before it, for the same input
ReduceManyIsTraceWitness ==
    /\ traces["normal"] # <<>>
    /\ traces["applicative"] # <<>>
    /\ Len(traces["normal"]) > 1
    /\ Len(traces["normal"]) < maxSteps + 1
    /\ Len(traces["applicative"]) = maxSteps + 1
    /\ betaReduceApplicative(Last(traces["applicative"])) # Null

\* the term reached from e by n normal-order steps, or the normal form when
\* it is reached earlier
RECURSIVE NormalReduct(_, _)
NormalReduct(e, n) ==
    IF n = 0 \/ ~HasRedex(e) THEN e ELSE NormalReduct(betaReduce(e), n - 1)

\* C5: reduceToNormalForm never takes more than maxSteps steps, and returns
\* the term reached after min(k, maxSteps) normal-order steps, which is the
\* last term of the normal-order trace
ReduceToNormalFormBounded ==
    /\ pc = "reduceToNormalForm" =>
          /\ count <= maxSteps
          /\ current = NormalReduct(expr, count)
    /\ normalForm # Null =>
          /\ normalForm = NormalReduct(expr, maxSteps)
          /\ traces["normal"] # <<>> => normalForm = Last(traces["normal"])

\* reduceToNormalForm returned a term that is still reducible, after a
\* budget of at least one step
ReduceToNormalFormBoundedWitness ==
    /\ normalForm # Null
    /\ maxSteps > 0
    /\ normalForm # expr
    /\ HasRedex(normalForm)
    /\ traces["normal"] # <<>>

\* both strategies returned a trace ending in a term irreducible under its
\* strategy
BothTerminated ==
    /\ traces["normal"] # <<>>
    /\ traces["applicative"] # <<>>
    /\ betaReduce(Last(traces["normal"])) = Null
    /\ betaReduceApplicative(Last(traces["applicative"])) = Null

\* C8: when both strategies reach an irreducible term within the budget the
\* two final terms are equal up to renaming of bound variables; for
\* (\x.\y.x) a ((\z.z) b) normal order takes 2 steps, applicative order 3,
\* both ending in a
StrategiesAgree ==
    BothTerminated =>
        /\ AlphaEquivalent(Last(traces["normal"]), Last(traces["applicative"]))
        /\ expr = StrategyCase =>
              /\ Len(traces["normal"]) = 3
              /\ Len(traces["applicative"]) = 4
              /\ Last(traces["normal"]) = createVariable("a")
              /\ Last(traces["applicative"]) = createVariable("a")

\* C10: for Omega and maxSteps = 50, reduceMany returns 51 terms, all
\* identical to the input, and the last one is still reducible
OmegaTrace ==
    (expr = Omega /\ maxSteps = 50 /\ traces["normal"] # <<>>) =>
        /\ Len(traces["normal"]) = 51
        /\ \A i \in 1..Len(traces["normal"]) : traces["normal"][i] = Omega
        /\ betaReduce(Last(traces["normal"])) # Null

\* reduceMany(Omega, 'normal', 50) has returned
OmegaTraceWitness ==
    /\ expr = Omega
    /\ maxSteps = 50
    /\ Len(traces["normal"]) = 51

-----------------------------------------------------------------------------
(* Properties of the Visualizer *)

\* C6: handleNormalForm stops at the step cap: it never runs more loop
\* iterations than the budget of reduceToNormalForm before it returns
HandleNormalFormStopsAtCap ==
    handler = "handleNormalForm" =>
        /\ count <= DefaultMaxSteps
        /\ nfCount <= DefaultMaxSteps

-----------------------------------------------------------------------------
(* Positions in a term, named or de Bruijn *)

\* the paths from the root to the variable leaves
RECURSIVE Occurrences(_)
Occurrences(t) ==
    IF "body" \in DOMAIN t THEN {<<"body">> \o p : p \in Occurrences(t.body)}
    ELSE IF "left" \in DOMAIN t
    THEN {<<"left">> \o p : p \in Occurrences(t.left)}
         \cup {<<"right">> \o p : p \in Occurrences(t.right)}
    ELSE {<<>>}

RECURSIVE SubtermAt(_, _)
SubtermAt(t, p) == IF p = <<>> THEN t ELSE SubtermAt(t[Head(p)], Tail(p))

\* the parameters of the abstractions passed on the way down p, outermost first
RECURSIVE BindersAbove(_, _)
BindersAbove(t, p) ==
    IF p = <<>> THEN <<>>
    ELSE (IF t.type = "abstraction" THEN <<t.param>> ELSE <<>>)
         \o BindersAbove(t[Head(p)], Tail(p))

\* the number of abstractions passed on the way down p in a de Bruijn term
RECURSIVE LamsAbove(_, _)
LamsAbove(t, p) ==
    IF p = <<>> THEN 0
    ELSE (IF t.type = "lam" THEN 1 ELSE 0) + LamsAbove(t[Head(p)], Tail(p))

Closed(e) ==
    \A p \in Occurrences(e) : includes(BindersAbove(e, p), SubtermAt(e, p).name)

-----------------------------------------------------------------------------
(* Properties of the de Bruijn conversions *)

\* C11: for every closed named term t, fromDeBruijn(toDeBruijn(t)) is
\* alpha-equivalent to t, and converting it again gives toDeBruijn(t)
RoundTripAlphaEquivalent ==
    (dbExpr # Null /\ Closed(dbExpr) /\ dbBack # Null) =>
        /\ dbBack # Thrown
        /\ Occurrences(dbBack) = Occurrences(dbExpr)
        /\ AlphaEquivalent(dbBack, dbExpr)
        /\ toDeBruijn(dbBack) = dbTerm

\* a closed term with an application and a shadowed binder has come back
\* under other names
RoundTripAlphaEquivalentWitness ==
    /\ dbExpr # Null /\ dbBack # Null
    /\ Closed(dbExpr)
    /\ dbBack # dbExpr
    /\ \E p \in Occurrences(dbExpr) :
          /\ \E i \in 1..Len(p) : p[i] = "right"
          /\ \E i, j \in 1..Len(BindersAbove(dbExpr, p)) :
                i # j /\ BindersAbove(dbExpr, p)[i] = BindersAbove(dbExpr, p)[j]

\* C12: toDeBruijn keeps the tree shape and maps every bound occurrence to the
\* number of abstractions between it and the innermost enclosing abstraction
\* of the same name
ToDeBruijnCountsBinders ==
    (dbExpr # Null /\ dbTerm # Null) =>
        /\ dbTerm # Thrown
        /\ Occurrences(dbTerm) = Occurrences(dbExpr)
        /\ \A p \in Occurrences(dbExpr) :
              LET binders == BindersAbove(dbExpr, p)
                  name == SubtermAt(dbExpr, p).name
                  v == SubtermAt(dbTerm, p)
              IN  /\ v.type = "var"
                  /\ LamsAbove(dbTerm, p) = Len(binders)
                  /\ includes(binders, name) =>
                        \E j \in 1..Len(binders) :
                            /\ binders[j] = name
                            /\ \A k \in (j + 1)..Len(binders) : binders[k] # name
                            /\ v.index = Len(binders) - j

\* an occurrence under two binders of its name, with another binder between
\* it and the inner one, has been converted
ToDeBruijnCountsBindersWitness ==
    /\ dbExpr # Null /\ dbTerm # Null
    /\ \E p \in Occurrences(dbExpr) :
          LET binders == BindersAbove(dbExpr, p)
              name == SubtermAt(dbExpr, p).name
          IN  /\ Len(binders) >= 3
              /\ \E i, j \in 1..Len(binders) :
                    i < j /\ binders[i] = name /\ binders[j] = name
              /\ binders[Len(binders)] # name
              /\ SubtermAt(dbTerm, p).index >= 1

\* the name fromDeBruijn gives the binder at nesting depth d
PolicyName(d) ==
    IF d < Len(FreshVars) THEN FreshVars[d + 1]
    ELSE "x" \o NumberToString(d - Len(FreshVars))

\* C13: the parameter fromDeBruijn synthesizes is never among the enclosing
\* synthesized names (x,y,z,a,b,c,m,n, then x0,x1,...): the binders along
\* every path are pairwise distinct and every occurrence resolves to the
\* binder its index names, or to none
SynthesizedBindersDistinct ==
    (dbTerm # Null /\ dbTerm \notin DbMalformed /\ dbBack # Null) =>
        /\ dbBack # Thrown
        /\ \A p \in Occurrences(dbBack) :
              LET binders == BindersAbove(dbBack, p)
                  name == SubtermAt(dbBack, p).name
                  v == SubtermAt(dbTerm, p)
              IN  /\ \A i, j \in 1..Len(binders) : i # j => binders[i] # binders[j]
                  /\ \A i \in 1..Len(binders) : binders[i] = PolicyName(i - 1)
                  /\ IF v.index \in 0..(Len(binders) - 1)
                     THEN name = binders[Len(binders) - v.index]
                     ELSE ~includes(binders, name)

\* a term nested deeper than the short list and x0 has been converted back
SynthesizedBindersDistinctWitness ==
    /\ dbBack # Null /\ dbBack # Thrown
    /\ \E p \in Occurrences(dbBack) :
          /\ Len(BindersAbove(dbBack, p)) >= Len(FreshVars) + 2
          /\ BindersAbove(dbBack, p)[Len(FreshVars) + 2] = "x1"

WidthCountsVarLeaves ==
    (dbTerm # Null /\ dbTerm \notin DbMalformed /\ dbDims # Null) =>
        /\ dbDims # Thrown
        /\ dbDims.width = Cardinality(Occurrences(dbTerm))

\* the dimensions of an application with sides of different widths
WidthCountsVarLeavesWitness ==
    /\ dbTerm # Null /\ dbTerm \notin DbMalformed /\ dbDims # Null
    /\ dbTerm.type = "app"
    /\ Cardinality(Occurrences(dbTerm.left)) = 2
    /\ Cardinality(Occurrences(dbTerm.right)) = 1
    /\ dbDims.width = 3

-----------------------------------------------------------------------------
(* Properties of the layouts *)

\* the paths of the subterms in the order generateVisual gives them nodes:
\* an abstraction before its body, the right side of an application before
\* the left, no node for the application itself
RECURSIVE GridNodeOrder(_, _)
GridNodeOrder(t, p) ==
    CASE t.type = "variable" -> <<p>>
      [] t.type = "abstraction" -> <<p>> \o GridNodeOrder(t.body, Append(p, "body"))
      [] t.type = "application" ->
            GridNodeOrder(t.right, Append(p, "right"))
            \o GridNodeOrder(t.left, Append(p, "left"))

\* the paths of the subterms in the order generateNodes gives them nodes
RECURSIVE TrompNodeOrder(_, _)
TrompNodeOrder(t, p) ==
    CASE t.type = "variable" -> <<p>>
      [] t.type = "abstraction" -> <<p>> \o TrompNodeOrder(t.body, Append(p, "body"))
      [] t.type = "application" ->
            TrompNodeOrder(t.left, Append(p, "left"))
            \o TrompNodeOrder(t.right, Append(p, "right"))

\* the paths of the applications in the order generateNodes gives them links
RECURSIVE ApplicationOrder(_, _)
ApplicationOrder(t, p) ==
    CASE t.type = "variable" -> <<>>
      [] t.type = "abstraction" -> ApplicationOrder(t.body, Append(p, "body"))
      [] t.type = "application" ->
            ApplicationOrder(t.left, Append(p, "left"))
            \o ApplicationOrder(t.right, Append(p, "right"))
            \o <<p>>

PositionIn(order, p) == CHOOSE k \in 1..Len(order) : order[k] = p

\* the path of the first and of the last variable below the subterm at p
RECURSIVE LeftmostLeaf(_, _)
LeftmostLeaf(e, p) ==
    LET t == SubtermAt(e, p)
    IN  CASE t.type = "variable" -> p
          [] t.type = "abstraction" -> LeftmostLeaf(e, Append(p, "body"))
          [] t.type = "application" -> LeftmostLeaf(e, Append(p, "left"))

RECURSIVE RightmostLeaf(_, _)
RightmostLeaf(e, p) ==
    LET t == SubtermAt(e, p)
    IN  CASE t.type = "variable" -> p
          [] t.type = "abstraction" -> RightmostLeaf(e, Append(p, "body"))
          [] t.type = "application" -> RightmostLeaf(e, Append(p, "right"))

BoundOccurrences(e) ==
    {p \in Occurrences(e) : includes(BindersAbove(e, p), SubtermAt(e, p).name)}

\* the path of the abstraction that binds the bound occurrence at p
BinderPath(e, p) ==
    LET name == SubtermAt(e, p).name
        binds(i) == LET t == SubtermAt(e, SubSeq(p, 1, i))
                    IN  t.type = "abstraction" /\ t.param = name
        i == CHOOSE i \in 0..(Len(p) - 1) :
                /\ binds(i)
                /\ \A j \in (i + 1)..(Len(p) - 1) : ~binds(j)
    IN  SubSeq(p, 1, i)

CountOf(seq, type) == Cardinality({i \in 1..Len(seq) : seq[i].type = type})

GridLaidOut == layoutLast # Null /\ layoutLast.generator = "grid"
TrompLaidOut == layoutLast # Null /\ layoutLast.generator = "tromp"

\* C15: generateGrid on a term with free variables does not fail, every
\* occurrence gets a variable node and binder links are emitted for the bound
\* occurrences only
GridFreeVariableHasNoLink ==
    GridLaidOut =>
        /\ layoutLast.result # Thrown
        /\ CountOf(layoutLast.result.nodes, "variable")
               = Cardinality(Occurrences(layoutLast.expr))
        /\ CountOf(layoutLast.result.links, "variable")
               = Cardinality(BoundOccurrences(layoutLast.expr))

\* the link the grid should hold for the bound occurrence at p: from the
\* middle of the variable's node to the column of its binder's node
ExpectedBinderLink(e, nodes, p) ==
    LET order == GridNodeOrder(e, <<>>)
        n == nodes[PositionIn(order, p)]
        b == nodes[PositionIn(order, BinderPath(e, p))]
    IN  <<[x |-> n.x, y |-> n.y + gridSize], [x |-> b.x, y |-> n.y + gridSize]>>

\* C16: in every grid, each variable node whose index is within the binder
\* stack has exactly one binder link, which ends at the coordinate recorded
\* for the abstraction index-many binders above it
GridBinderLinks ==
    (GridLaidOut /\ layoutLast.result # Thrown) =>
        LET e == layoutLast.expr
            nodes == layoutLast.result.nodes
            links == layoutLast.result.links
            order == GridNodeOrder(e, <<>>)
            bound == BoundOccurrences(e)
            binderLinks == {i \in 1..Len(links) :
                               /\ links[i].type = "variable"
                               /\ links[i].points[2].x # NaN}
        IN  /\ Len(nodes) = Len(order)
            /\ \A p \in bound :
                  LET n == nodes[PositionIn(order, p)]
                      b == nodes[PositionIn(order, BinderPath(e, p))]
                  IN  /\ n.type = "variable" /\ b.type = "abstraction"
                      /\ "binderIndex" \in DOMAIN n
                      /\ Twice(n.binderIndex * gridSize) = b.x
                      /\ Cardinality({i \in binderLinks :
                             links[i].points = ExpectedBinderLink(e, nodes, p)})
                         = Cardinality({q \in bound :
                             ExpectedBinderLink(e, nodes, q) = ExpectedBinderLink(e, nodes, p)})
            /\ \A i \in binderLinks :
                  \E p \in bound : links[i].points = ExpectedBinderLink(e, nodes, p)

\* a grid with an occurrence bound by the binder above the nearest one, next
\* to an occurrence bound by the nearest
GridBinderLinksWitness ==
    /\ GridLaidOut /\ layoutLast.result # Thrown
    /\ Closed(layoutLast.expr)
    /\ \E p, q \in Occurrences(layoutLast.expr) :
          /\ SubtermAt(toDeBruijn(layoutLast.expr), p).index = 1
          /\ SubtermAt(toDeBruijn(layoutLast.expr), q).index = 0
          /\ ExpectedBinderLink(layoutLast.expr, layoutLast.result.nodes, p)[2].x
                # ExpectedBinderLink(layoutLast.expr, layoutLast.result.nodes, q)[2].x

SameInput(a, b) ==
    /\ a.generator = b.generator
    /\ a.expr = b.expr
    /\ IF a.generator = "grid" THEN a.options = b.options
       ELSE a.alternativeStyle = b.alternativeStyle

\* C18: a layout call on the same generator with the same term and options as
\* the first call returns the same diagram, ids included, whatever was laid
\* out in between
LayoutIsIdempotent ==
    (layoutFirst # Null /\ SameInput(layoutFirst, layoutLast)) =>
        layoutLast.result = layoutFirst.result

\* the first call repeated after a call with another input
LayoutIsIdempotentWitness ==
    /\ layoutCalls = 3 /\ layoutOthers = 1
    /\ SameInput(layoutFirst, layoutLast)
    /\ layoutLast.generator = "grid"
    /\ Len(layoutLast.result.nodes) >= 3
    /\ Len(layoutLast.result.links) >= 3

\* the same, on the other generator
LayoutIsIdempotentTrompWitness ==
    /\ layoutCalls = 3 /\ layoutOthers = 1
    /\ SameInput(layoutFirst, layoutLast)
    /\ layoutLast.generator = "tromp"
    /\ Len(layoutLast.result.nodes) >= 3

\* C19: with alternativeStyle = false every application link runs from the
\* column of the leftmost variable of the left operand to the column of the
\* leftmost variable of the right operand; with alternativeStyle = true it
\* starts at the column of the last variable of the left operand; nodes and
\* all other links are the same in both styles
ApplicationLinkConvention ==
    TrompLaidOut =>
        LET e == layoutLast.expr
            style == layoutLast.alternativeStyle
            nodes == layoutLast.result.nodes
            links == layoutLast.result.links
            order == TrompNodeOrder(e, <<>>)
            apps == ApplicationOrder(e, <<>>)
            appLinks == SelectSeq(links, LAMBDA l : l.type = "application")
            NodeAt(p) == nodes[PositionIn(order, p)]
            other == generateDiagram(NewTrompDiagramGenerator, e, ~style).result
        IN  /\ layoutLast.result.alternativeStyle = style
            /\ Len(nodes) = Len(order)
            /\ Len(appLinks) = Len(apps)
            /\ \A k \in 1..Len(apps) :
                  LET left == Append(apps[k], "left")
                      right == Append(apps[k], "right")
                  IN  /\ appLinks[k].x1 =
                            IF style THEN NodeAt(RightmostLeaf(e, left)).x
                            ELSE NodeAt(LeftmostLeaf(e, left)).x
                      /\ appLinks[k].x2 = NodeAt(LeftmostLeaf(e, right)).x
                      /\ appLinks[k].y1 = appLinks[k].y2
            /\ other.nodes = nodes
            /\ Len(other.links) = Len(links)
            /\ \A i \in 1..Len(links) :
                  IF links[i].type = "application"
                  THEN other.links[i] = [links[i] EXCEPT !.x1 = other.links[i].x1]
                  ELSE other.links[i] = links[i]

\* a diagram in the alternative style of an application whose left operand
\* holds two variables
ApplicationLinkConventionWitness ==
    /\ TrompLaidOut
    /\ layoutLast.alternativeStyle
    /\ \E p \in {q \in Occurrences(layoutLast.expr) : Len(q) >= 2} :
          LET app == SubSeq(p, 1, Len(p) - 2)
          IN  /\ SubtermAt(layoutLast.expr, app).type = "application"
              /\ p[Len(p) - 1] = "left"
              /\ SubtermAt(layoutLast.expr, Append(app, "left")).type = "application"

-----------------------------------------------------------------------------
(* Properties of the notation *)

\* C20: for a term whose names are identifiers over [a-zA-Z0-9_], parsing
\* toString(t) gives a term equal to t
ParseInvertsToString ==
    (textExpr # Null /\ textPc = "parsed") => textParsed = textExpr

\* a term with an application on the right of an application, an abstraction
\* on the left of one and a name of two characters has been read back
ParseInvertsToStringWitness ==
    /\ textExpr # Null /\ textPc = "parsed"
    /\ textExpr.type = "application"
    /\ textExpr.left.type = "abstraction"
    /\ textExpr.right.type = "application"
    /\ textExpr.right.left = createVariable("y1")

-----------------------------------------------------------------------------
(* Free variables through the de Bruijn conversions *)

FreeOccurrences(e) == Occurrences(e) \ BoundOccurrences(e)

\* C30: for an open term t, fromDeBruijn(toDeBruijn(t)) gives two free
\* occurrences the same placeholder name exactly when they have the same
\* name in t, whatever number of binders encloses each
FreeVariablesKeepIdentity ==
    (dbExpr # Null /\ dbBack # Null /\ dbBack # Thrown) =>
        \A p, q \in FreeOccurrences(dbExpr) :
            (SubtermAt(dbExpr, p).name = SubtermAt(dbExpr, q).name)
                <=> (SubtermAt(dbBack, p).name = SubtermAt(dbBack, q).name)

-----------------------------------------------------------------------------
(* Positions in the grid *)

VariableNodes(nodes) == {i \in 1..Len(nodes) : nodes[i].type = "variable"}

\* C23: the right operand of an application is placed past the variable
\* leaves of the left operand, so two different variable leaves of a term
\* never receive the same grid position
GridLeavesApart ==
    (GridLaidOut /\ layoutLast.result # Thrown) =>
        LET nodes == layoutLast.result.nodes
        IN  \A i, j \in VariableNodes(nodes) :
                i # j => <<nodes[i].x, nodes[i].y>> # <<nodes[j].x, nodes[j].y>>

PointsOf(diagram) ==
    {[x |-> diagram.nodes[i].x, y |-> diagram.nodes[i].y] : i \in 1..Len(diagram.nodes)}
    \cup UNION {{diagram.links[i].points[1], diagram.links[i].points[2]}
                : i \in 1..Len(diagram.links)}

\* C29: for a closed term, every node position and every link point of the
\* grid lies inside the rectangle [0, width] x [0, height] the grid reports
GridWithinReportedSize ==
    (GridLaidOut /\ layoutLast.result # Thrown /\ Closed(layoutLast.expr)) =>
        \A pt \in PointsOf(layoutLast.result) :
            /\ 0 <= pt.x /\ pt.x <= layoutLast.result.width
            /\ 0 <= pt.y /\ pt.y <= layoutLast.result.height

\* C21: lambdaParser.parse either returns a term after reading the whole of
\* the trimmed input, or throws an error that names a position of the input;
\* it never returns a term read from a prefix of the input only.
ParserReadsWholeInput ==
    parserResult # Null =>
        IF parserResult.type = "thrown"
        THEN parserResult.position \in 0..Len(lambdaParser.input)
        ELSE lambdaParser.pos = Len(lambdaParser.input)

\* C25: whenever the Visualizer has a current expression, canReduce is true
\* exactly when betaReduce finds a redex in it
CanReduceTracksRedex ==
    currentExpression # Null => (canReduce <=> betaReduce(currentExpression) # Null)

-----------------------------------------------------------------------------
(* Properties of the Church arithmetic *)

\* the arithmetic value of a op b
MathValue(node) ==
    CASE node.operator = "+" -> node.left.value + node.right.value
      [] node.operator = "-" -> node.left.value - node.right.value
      [] node.operator = "*" -> node.left.value * node.right.value

\* C22: for a op b with op among +, - and * (and a >= b for -),
\* evaluateMathAsLambda reduces the Church-encoded term to the Church numeral
\* of the arithmetic value and returns that value as its result
ArithmeticAgrees ==
    (/\ mathPc = "done"
     /\ mathNode.type = "binaryOp"
     /\ mathNode.operator \in {"+", "-", "*"}
     /\ mathNode.operator = "-" => mathNode.left.value >= mathNode.right.value) =>
        /\ mathSteps[Len(mathSteps)] = churchNumber(MathValue(mathNode))
        /\ mathResult.result = JsNumber(MathValue(mathNode))

\* the part of C22 about the reduction alone, for + and *
ChurchReductionAgrees ==
    (/\ mathPc = "done"
     /\ mathNode.type = "binaryOp"
     /\ mathNode.operator \in {"+", "*"}) =>
        mathSteps[Len(mathSteps)] = churchNumber(MathValue(mathNode))

\* the part of C22 about the result alone, for + and *
ResultAgrees ==
    (/\ mathPc = "done"
     /\ mathNode.type = "binaryOp"
     /\ mathNode.operator \in {"+", "*"}) =>
        mathResult.result = JsNumber(MathValue(mathNode))

-----------------------------------------------------------------------------
(* Properties of the named Tromp diagram *)

\* the names of the variable leaves, from left to right
RECURSIVE LeafNames(_)
LeafNames(e) ==
    CASE e.type = "variable" -> <<e.name>>
      [] e.type = "abstraction" -> LeafNames(e.body)
      [] e.type = "application" -> LeafNames(e.left) \o LeafNames(e.right)

\* the params of the abstractions in the order analyzeTerm finishes them
RECURSIVE ParamsInOrder(_)
ParamsInOrder(e) ==
    CASE e.type = "variable" -> <<>>
      [] e.type = "abstraction" -> Append(ParamsInOrder(e.body), e.param)
      [] e.type = "application" -> ParamsInOrder(e.left) \o ParamsInOrder(e.right)

\* C24: with showVariableNames on, the diagram of a closed term labels every
\* variable with the param of the abstraction that binds it in the named
\* term, and every lambda with its own param
LabelsNameBinders ==
    (/\ namedDiagram # Null
     /\ namedOptions.showVariableNames
     /\ Closed(namedExpr)) =>
        /\ \A i \in 1..Len(namedDiagram.variables) :
               /\ "name" \in DOMAIN namedDiagram.variables[i]
               /\ namedDiagram.variables[i].name = LeafNames(namedExpr)[i]
        /\ \A j \in 1..Len(namedDiagram.lambdas) :
               /\ "paramName" \in DOMAIN namedDiagram.lambdas[j]
               /\ namedDiagram.lambdas[j].paramName = ParamsInOrder(namedExpr)[j]

-----------------------------------------------------------------------------
(* Properties of the ReductionSequence component *)

\* C26: whenever ReductionSequence is shown, its sequence is
\* reduceMany(initialExpr) for the initialExpr the Visualizer passes to it
SequenceFollowsInitialExpr ==
    rsMounted => rsSequence = reduceMany(rsInitialExpr, "normal", DefaultSequenceSteps)

\* C27: under every interleaving of timer firings and clicks, currentStep is
\* an index of the sequence
CurrentStepInRange ==
    rsMounted => rsCurrentStep \in 0..(Len(rsSequence) - 1)

\* autoplay is on at the last of at least three steps, with its timer set
CurrentStepInRangeWitness ==
    /\ rsMounted
    /\ rsIsPlaying
    /\ rsTimer # Null
    /\ Len(rsSequence) >= 3
    /\ rsCurrentStep = Len(rsSequence) - 1

\* C28: with autoplay on and no other event, currentStep never goes back and
\* goes up by one with each tick that is rendered, and in the end autoplay is
\* off at the last step
AutoplayRunsToEnd ==
    /\ [][rsMounted =>
            /\ rsCurrentStep' \in {rsCurrentStep, rsCurrentStep + 1}
            /\ (rsPending # <<>> /\ rsPending' = <<>> /\ rsPending[1].set = "currentStep")
                  => rsCurrentStep' = rsCurrentStep + 1]_vars
    /\ rsIsPlaying ~> (~rsIsPlaying /\ rsCurrentStep = Len(rsSequence) - 1)

\* autoplay has run through a hundred steps and has switched itself off
AutoplayRunsToEndWitness ==
    /\ rsMounted
    /\ ~rsIsPlaying
    /\ rsTimer = Null /\ rsPending = <<>>
    /\ Len(rsSequence) = DefaultSequenceSteps + 1
    /\ rsCurrentStep = Len(rsSequence) - 1

=============================================================================
